---- MODULE Spec2Model ----
(***************************************************************************)
(* Model of the FTS time discipline core (abbbe/fts).                      *)
(*                                                                         *)
(* DTR: the TEZ interrupt handler of the MCPWM timer, the single-slot      *)
(* align request / align feedback mailboxes, the TEZ listener              *)
(* notification, and the task-side protocols that drive them: the master   *)
(* alignment (dtr_align_master_timer) and the DTC update (dtc_crm_updated).*)
(*                                                                         *)
(* The ISR is modelled in two steps: the part under the spinlock           *)
(* (dtr.c 81-144) and the part after it (dtr.c 146-163).  A task on the    *)
(* other core may run between the two; a task step that takes the spinlock *)
(* is atomic with respect to the first part.                               *)
(*                                                                         *)
(* Integers of the model stay below 2^31; int64/uint32 quantities are      *)
(* drawn so that they keep their value in the C types that hold them.      *)
(***************************************************************************)
EXTENDS Integers, Sequences, FiniteSets, TLC

-----------------------------------------------------------------------------
(* Program constants (dtr.h)                                               *)

DTR_TIMER_RESOLUTION_HZ == 40000000
DTR_TIMER_PERIOD_US == 500
DTR_COMPENSATION_NS == -200
FP16_SCALE == 65536
CONFIG_FTS_MIN_PERIOD_CPU_CYCLES == 5000
CONFIG_ESP_DEFAULT_CPU_FREQ_MHZ == 240
UINT16_MAX == 65535

TIMER_TICKS_PER_US == DTR_TIMER_RESOLUTION_HZ \div 1000000
DTR_TIMER_PERIOD_TICKS == DTR_TIMER_PERIOD_US * TIMER_TICKS_PER_US

\* (CYCLES * RESOLUTION_HZ) / (CPU_MHZ * 1000000), with the common factor
\* 1000000 of RESOLUTION_HZ divided out first (the quotient is the same).
DTR_MIN_PERIOD_TICKS ==
    (CONFIG_FTS_MIN_PERIOD_CPU_CYCLES * TIMER_TICKS_PER_US)
        \div CONFIG_ESP_DEFAULT_CPU_FREQ_MHZ

\* 10^12 / RESOLUTION_HZ picoseconds per tick = 10^6 / TICKS_PER_US
DTR_PS_PER_TICK == 1000000 \div TIMER_TICKS_PER_US

-----------------------------------------------------------------------------
(* Bounds of the model                                                     *)

MaxTez == 6          \* TEZ interrupts in a run of Spec
MaxCrmUpdates == 2   \* CRM fits delivered to the DTC in a run of Spec
MaxDitherN == 65536  \* TEZ interrupts in a run of SpecDither

\* Results of the MAC/timer start offset measurement (ticks, >= 0)
OffsetSet == {0, 19500, 40007}

\* Slope unit of the CRM models: slope_lr_m1 = ppm / SlopeDen
SlopeDen == 1000000

\* CRM fits handed to the DTC: picosecond centroids and the slope in ppm
CrmModels ==
    { [valid |-> TRUE,  ppm |-> 0,   local_ref_ps |-> 0,
       remote_ref_ps |-> 0],
      [valid |-> TRUE,  ppm |-> 50,  local_ref_ps |-> 1000012345,
       remote_ref_ps |-> 2000000000],
      [valid |-> TRUE,  ppm |-> -50, local_ref_ps |-> 1000012345,
       remote_ref_ps |-> 24999],
      [valid |-> FALSE, ppm |-> 7,   local_ref_ps |-> 0,
       remote_ref_ps |-> 0] }

NoCrm == [valid |-> FALSE, ppm |-> 0, local_ref_ps |-> 0, remote_ref_ps |-> 0]

-----------------------------------------------------------------------------
(* C arithmetic                                                            *)

\* Integer division of C: truncation toward zero (d > 0)
TruncDiv(a, d) == IF a >= 0 THEN a \div d ELSE -((-a) \div d)

\* (int64_t)((double)a * (n / d)): the product truncated toward zero
TruncMul(a, n, d) ==
    IF d > 0 THEN TruncDiv(a * n, d) ELSE TruncDiv(-(a * n), -d)

\* (uint16_t)x
Uint16(x) == x % (UINT16_MAX + 1)

\* floor(n * f / FP16_SCALE) for 0 <= f < FP16_SCALE, computed in two
\* halves so that no intermediate product leaves 31 bits
MulDivFloor(n, f) ==
    ((n * (f \div 256)) + ((n * (f % 256)) \div 256)) \div 256

-----------------------------------------------------------------------------
VARIABLES
    role,                  \* build role: "master" or "slave"
    s_state,               \* dtr_state_t
    cycle_counter,
    active_period_ticks,
    shadow_period_ticks,
    timer_base_ticks,
    period_ticks,
    base_period_fp16,
    period_ticks_frac_acc,
    s_app_callback,
    s_align_request,
    s_align_feedback,
    s_tez_listener_task,
    timer_running,         \* MCPWM timer enabled and started
    hw_shadow_period,      \* MCPWM shadow period register
    gen_force_low,         \* generator output forced low
    notify_pending,        \* notification state of the listener task
    isr_pc,                \* "idle" | "tail": position of the TEZ ISR
    aborted,               \* "no" or the reason the process aborted
    task_pc,               \* position of the task
    tb_sample,             \* task local: sampled timer_base_ticks
    crm,                   \* CRM globals read by the DTC
    crm_updates,
    s_first_update,
    \* history
    tez_count,             \* TEZ interrupts taken so far
    isr_branch,            \* branch of the latest ISR: none | align | dither
    applied,               \* request consumed by the latest align branch
    cb_calls,              \* callback invocations of the latest ISR
    cb_arg,                \* argument of the latest callback invocation
    fetched,               \* feedback copy of the latest fetch
    fetch_count,           \* fetches since the latest alignment apply
    dither_n,              \* dithering TEZs since the latest apply
    dither_sum,            \* sum of the period_ticks they produced
    hw_hist,               \* the counter's periods: the lengths completed,
                           \* the length running, the start offset added
    wake                   \* the latest notification the ISR has sent since
                           \* the latest xTaskNotifyStateClear, if any

dtrVars == <<s_state, cycle_counter, active_period_ticks, shadow_period_ticks,
             timer_base_ticks, period_ticks, base_period_fp16,
             period_ticks_frac_acc>>
mailVars == <<s_align_request, s_align_feedback>>
hwVars == <<timer_running, hw_shadow_period, gen_force_low>>
isrHist == <<tez_count, isr_branch, applied, cb_calls, cb_arg, dither_n,
             dither_sum, hw_hist, wake>>
taskVars == <<task_pc, tb_sample, crm, crm_updates, s_first_update>>

\* No notification has been sent since the latest clear
NoWake == [sent |-> FALSE, tez |-> 0, tb |-> 0]

\* Everything the DTR, the DTC and their histories own
dtrAll == <<role, dtrVars, s_app_callback, mailVars, s_tez_listener_task,
            hwVars, notify_pending, isr_pc, aborted, taskVars, isrHist,
            fetched, fetch_count>>

VARIABLES
    unwrap_state,          \* an unwrap_state_t handed to clock_unwrap
    uw_hist                \* history of the calls of clock_unwrap on it

unwrapVars == <<unwrap_state, uw_hist>>

VARIABLES
    mac_hw,                \* microseconds the MAC hardware has counted
    mac_running,           \* the MAC counter advances (WiFi started)
    s_initialized,
    s_unwrap_state,
    s_lock,                \* "NULL", "free", or the task holding the mutex
    s_watchdog_task_handle,
    clk_pc,                \* position of each task in the clock component
    clk_local,             \* locals of each task's call in progress
    init_ret,              \* result of the latest clock_init: none/OK/FAIL
    clk_aborted,           \* "no" or the reason the process aborted
    clk_hist               \* history of the MAC clock

clockVars == <<mac_hw, mac_running, s_initialized, s_unwrap_state, s_lock,
               s_watchdog_task_handle, clk_pc, clk_local, init_ret,
               clk_aborted, clk_hist>>

VARIABLES
    s_regression_samples,  \* the ring of (local, remote) samples
    crm_model,             \* crm_valid, the two slopes, the reference points
    s_callback,            \* "NULL" or the registered callback
    crm_hist               \* history of the CRM

crmVars == <<s_regression_samples, crm_model, s_callback, crm_hist>>

VARIABLES
    proj,                  \* a tick value on its way through the projections
    meas,                  \* the MAC/timer start offset measurement
    sync                   \* the slave's sync receiver

auxVars == <<proj, meas, sync>>

\* The state of the clock, CRM and auxiliary components
libVars == <<unwrapVars, clockVars, crmVars, auxVars>>

vars == <<dtrAll, libVars>>

\* unwrap_state_t
UnwrapState(wrap_value, wrap_value2) ==
    [last_val |-> 0, offset |-> 0, wrap_count |-> 0,
     wrap_value |-> wrap_value, wrap_value2 |-> wrap_value2]

NoUnwrapHist == [calls |-> 0, in_range |-> TRUE, val |-> 0, ret |-> 0,
                 wrapped |-> FALSE, prev_val |-> 0, prev_ret |-> 0,
                 pre |-> UnwrapState(0, 0)]

\* Components that take no step in a specification
UnwrapIdle ==
    /\ unwrap_state = UnwrapState(0, 0)
    /\ uw_hist = NoUnwrapHist

\* Tasks that use the MAC clock: the keep-alive task of clock.c, and "main"
\* for the task that runs app_main and clock_init (any other caller, such as
\* the sync broadcast task, makes the calls that "main" makes)
ClockTasks == {"main", "clock_wdog"}

NoClockLocal == [from |-> "idle", hw |-> 0, ret |-> 0, base |-> 0,
                 mac_clock1_us |-> 0, mac_clock2_us |-> 0, hw2 |-> 0]

\* reads counts the results of clock_get_us up to 2, enough to tell
\* whether there are a latest and a previous result
NoClockHist == [fail_cause |-> "none", epoch |-> 0, hw_last |-> 0,
                gap_ok |-> TRUE, reads |-> 0, ret |-> 0, prev_ret |-> 0]

\* clock.c 50-53: the statics before clock_init
ClockStatics ==
    /\ s_initialized = FALSE
    /\ s_lock = "NULL"
    /\ s_watchdog_task_handle = "NULL"
    /\ clk_pc = [t \in ClockTasks |-> IF t = "main" THEN "boot" ELSE "idle"]
    /\ clk_local = [t \in ClockTasks |-> NoClockLocal]
    /\ init_ret = "none"
    /\ clk_aborted = "no"
    /\ clk_hist = NoClockHist

ClockIdle ==
    /\ mac_hw = 0
    /\ mac_running = FALSE
    /\ s_unwrap_state = UnwrapState(0, 0)
    /\ ClockStatics

\* crm.c 29-33, 147-152: the model before the first fit.  A slope s - 1 is
\* kept as the exact fraction num / den.
NoCrmModel ==
    [crm_valid |-> FALSE,
     crm_slope_lr_m1 |-> [num |-> 0, den |-> 1],
     crm_slope_rl_m1 |-> [num |-> 0, den |-> 1],
     crm_local_ref_ps |-> 0,
     crm_remote_ref_ps |-> 0]

NoCrmHist == [appended |-> <<>>, reports |-> 0, cb_calls |-> 0,
              fit |-> "none", pre |-> NoCrmModel, entries |-> <<>>]

\* crm.c 35-40: the ring as a function of its capacity
EmptyRing(capacity) ==
    [local_ps |-> [i \in 0 .. capacity - 1 |-> 0],
     remote_ps |-> [i \in 0 .. capacity - 1 |-> 0],
     count |-> 0, head |-> 0]

CrmIdle ==
    /\ s_regression_samples = EmptyRing(1)
    /\ crm_model = NoCrmModel
    /\ s_callback = "NULL"
    /\ crm_hist = NoCrmHist

\* ftm.c 90-92: the sync statics of the slave, with the history of the
\* datagrams received: their number, the number accepted, the latest one
\* and whether it made the receiver signal a master reboot
NoSync ==
    [s_remote_run_id |-> 0, s_sync_valid |-> FALSE,
     s_remote_mac_clock_us |-> 0, packets |-> 0, accepted |-> 0,
     reboot |-> FALSE,
     last |-> [len |-> 0, magic |-> 0, run_id |-> 0, mac_clock_us |-> 0]]

\* The auxiliary components other than v take no step
AuxIdleExcept(v) ==
    /\ (v # "proj") =>
          proj = [stage |-> "idle", local_ticks |-> 0, crm_ref_local_ticks |-> 0,
                  crm_ref_remote_ticks |-> 0, ppm |-> 0, remote_ticks |-> 0,
                  back_ticks |-> 0]
    /\ (v # "meas") => meas = [pc |-> "idle"]
    /\ (v # "sync") => sync = NoSync

LibIdle == UnwrapIdle /\ ClockIdle /\ CrmIdle /\ AuxIdleExcept("none")

NoRequest == [pending |-> FALSE, aligned_local_ticks |-> 0,
              aligned_cycle_counter |-> 0, aligned_base_period_fp16 |-> 0]
NoFeedback == [ready |-> FALSE, cycle_counter |-> 0, cycle_delta |-> 0,
               period_ticks |-> 0, period_ticks_delta |-> 0]
NoApplied == [cycle |-> 0, ticks |-> 0, base |-> 0, tb |-> 0, k |-> 0,
              old_cycle |-> 0]

-----------------------------------------------------------------------------
(* State after dtr_init (which calls s_init_hardware)                      *)

DtrInit ==
    /\ role \in {"master", "slave"}
    /\ s_app_callback \in {"NULL", "fts_callback"}
    /\ s_state = "NotStarted"
    /\ cycle_counter = -1
    /\ timer_base_ticks = 0
    /\ period_ticks = DTR_TIMER_PERIOD_TICKS
    /\ active_period_ticks = 0
    /\ shadow_period_ticks = DTR_TIMER_PERIOD_TICKS
    /\ base_period_fp16 = DTR_TIMER_PERIOD_TICKS * FP16_SCALE
    /\ period_ticks_frac_acc = 0
    /\ s_align_request = NoRequest
    /\ s_align_feedback = NoFeedback
    /\ s_tez_listener_task = "NULL"
    /\ timer_running = FALSE
    /\ hw_shadow_period = DTR_TIMER_PERIOD_TICKS
    /\ gen_force_low = (role = "slave")
    /\ notify_pending = FALSE
    /\ isr_pc = "idle"
    /\ aborted = "no"
    /\ task_pc = "start"
    /\ tb_sample = 0
    /\ crm = NoCrm
    /\ crm_updates = 0
    /\ s_first_update = TRUE
    /\ tez_count = 0
    /\ isr_branch = "none"
    /\ applied = NoApplied
    /\ cb_calls = 0
    /\ cb_arg = 0
    /\ fetched = NoFeedback
    /\ fetch_count = 0
    /\ dither_n = 0
    /\ dither_sum = 0
    /\ hw_hist = [elapsed |-> 0, running |-> 0, offset |-> 0]
    /\ wake = NoWake

Init == DtrInit /\ LibIdle

-----------------------------------------------------------------------------
(* The TEZ interrupt handler, dtr_tez_handler                              *)

\* dtr.c 88: the branch taken by the ISR
IsrAppliesRequest_OnlyWhenAligned(req, st) == req.pending /\ st = "Aligned"
IsrAppliesRequest(req, st) == req.pending

\* dtr.c 134-140 (and 102-108): one period of the dithered base period,
\* and the fractional accumulator it leaves
DitherStep_KeepAcc(base, acc) ==
    LET acc1 == acc + (base % FP16_SCALE)
        carry == acc1 >= FP16_SCALE
    IN [period_ticks |-> (base \div FP16_SCALE) + (IF carry THEN 1 ELSE 0),
        frac_acc |-> acc1]
DitherStep_NoCarry(base, acc) ==
    LET acc1 == acc + (base % FP16_SCALE)
    IN [period_ticks |-> base \div FP16_SCALE,
        frac_acc |-> IF acc1 >= FP16_SCALE THEN acc1 - FP16_SCALE ELSE acc1]
DitherStep(base, acc) ==
    LET acc1 == acc + (base % FP16_SCALE)
        carry == acc1 >= FP16_SCALE
    IN [period_ticks |-> (base \div FP16_SCALE) + (IF carry THEN 1 ELSE 0),
        frac_acc |-> IF carry THEN acc1 - FP16_SCALE ELSE acc1]

\* dtr.c 100: period_ticks < DTR_MIN_PERIOD_TICKS.  period_ticks is int64_t
\* and DTR_MIN_PERIOD_TICKS is built from unsigned long long constants, so
\* the comparison is unsigned: a negative period_ticks compares as a value
\* of at least 2^63 and the loop body is not entered.
NeedsRollForward(pt) == pt >= 0 /\ pt < DTR_MIN_PERIOD_TICKS

\* dtr.c 100-112: the roll-forward loop
RECURSIVE RollForward_NoCount(_, _, _, _)
RollForward_NoCount(pt, acc, cyc, base) ==
    IF NeedsRollForward(pt)
    THEN LET d == DitherStep(base, acc)
         IN RollForward_NoCount(pt + d.period_ticks, d.frac_acc, cyc, base)
    ELSE [period_ticks |-> pt, frac_acc |-> acc, cycle_counter |-> cyc]
RECURSIVE RollForward(_, _, _, _)
RollForward(pt, acc, cyc, base) ==
    IF NeedsRollForward(pt)
    THEN LET d == DitherStep(base, acc)
         IN RollForward(pt + d.period_ticks, d.frac_acc, cyc + 1, base)
    ELSE [period_ticks |-> pt, frac_acc |-> acc, cycle_counter |-> cyc]

\* dtr.c 124-125: the state left by an alignment apply
StateAfterApply_Toggle(st) == IF st = "Running" THEN "Aligned" ELSE "Running"
StateAfterApply(st) == IF st = "Running" THEN "Aligned" ELSE st

\* dtr.c 127-130: the generator force left by an alignment apply (the force
\* is only ever set in the slave build)
ForceAfterApply_Never(st, force) == force
ForceAfterApply(st, force) == IF st = "Running" THEN FALSE ELSE force

\* dtr.c 148: the range check before the shadow register is written
PeriodOutOfRange_NoLower(pt) == pt > UINT16_MAX
PeriodOutOfRange(pt) == pt <= 0 \/ pt > UINT16_MAX

\* dtr.c 160: whether the ISR invokes the application callback
CallbackDue_WhenStarted(st, cb) == st # "NotStarted" /\ cb # "NULL"
CallbackDue(st, cb) == st = "Aligned" /\ cb # "NULL"

\* dtr.c 84: cycle_counter++
CycleAfterTez_Stuck(c) == c
CycleAfterTez(c) == c + 1

\* dtr.c 85: timer_base_ticks += active_period_ticks
BaseAfterTez_Shadow(tb, active) == tb + shadow_period_ticks
BaseAfterTez_Nominal(tb, active) == tb + DTR_TIMER_PERIOD_TICKS
BaseAfterTez(tb, active) == tb + active

\* dtr.c 81-144: the part of the ISR under the spinlock.  The interrupt is
\* raised by the counter reaching zero: the period that was running is
\* complete (none at the first TEZ, which fires as the timer starts) and
\* the hardware has loaded its period from the shadow register.
TezCritical(limit) ==
    /\ timer_running
    /\ isr_pc = "idle"
    /\ aborted = "no"
    /\ tez_count < limit
    /\ hw_hist' = [hw_hist EXCEPT !.elapsed = @ + hw_hist.running,
                                  !.running = hw_shadow_period]
    /\ LET tb1 == BaseAfterTez(timer_base_ticks, active_period_ticks)
           req == s_align_request
       IN
       /\ timer_base_ticks' = tb1
       /\ active_period_ticks' = shadow_period_ticks
       /\ IF IsrAppliesRequest(req, s_state)
          THEN LET base == req.aligned_base_period_fp16
                   r == RollForward(req.aligned_local_ticks - tb1, 0,
                                    req.aligned_cycle_counter, base)
               IN
               /\ cycle_counter' = r.cycle_counter
               /\ period_ticks' = r.period_ticks
               /\ base_period_fp16' = base
               /\ period_ticks_frac_acc' = r.frac_acc
               /\ s_align_request' = [req EXCEPT !.pending = FALSE]
               /\ IF s_align_feedback.ready
                  THEN \* assert(!s_align_feedback.ready) fails
                       /\ aborted' = "isr_assert"
                       /\ UNCHANGED <<s_align_feedback, s_state,
                                      gen_force_low>>
                  ELSE /\ aborted' = aborted
                       /\ s_align_feedback' =
                            [ready |-> TRUE,
                             cycle_counter |-> r.cycle_counter,
                             cycle_delta |->
                                 r.cycle_counter - CycleAfterTez(cycle_counter),
                             period_ticks |-> r.period_ticks,
                             period_ticks_delta |->
                                 r.period_ticks - period_ticks]
                       /\ s_state' = StateAfterApply(s_state)
                       /\ gen_force_low' =
                            ForceAfterApply(s_state, gen_force_low)
               /\ isr_branch' = "align"
               /\ applied' = [cycle |-> req.aligned_cycle_counter,
                              ticks |-> req.aligned_local_ticks,
                              base |-> base,
                              tb |-> tb1,
                              k |-> r.cycle_counter
                                      - req.aligned_cycle_counter,
                              old_cycle |-> cycle_counter]
               /\ fetch_count' = 0
               /\ dither_n' = 0
               /\ dither_sum' = 0
          ELSE LET d == DitherStep(base_period_fp16, period_ticks_frac_acc)
               IN
               /\ cycle_counter' = CycleAfterTez(cycle_counter)
               /\ period_ticks' = d.period_ticks
               /\ period_ticks_frac_acc' = d.frac_acc
               /\ isr_branch' = "dither"
               /\ dither_n' = dither_n + 1
               /\ dither_sum' = dither_sum + d.period_ticks
               /\ UNCHANGED <<base_period_fp16, s_align_request,
                              s_align_feedback, s_state, gen_force_low,
                              aborted, applied, fetch_count>>
    /\ tez_count' = tez_count + 1
    /\ cb_calls' = 0
    /\ isr_pc' = "tail"
    /\ UNCHANGED <<role, shadow_period_ticks, s_app_callback,
                   s_tez_listener_task, timer_running, hw_shadow_period,
                   notify_pending, taskVars, cb_arg, fetched, wake>>
    /\ UNCHANGED libVars

\* dtr.c 155-158: xTaskNotifyFromISR on the registered handle.  The handle
\* of a deleted task is dangling: the call writes into the freed control
\* block, unnoticed or fatally.
NotifyOutcomes(listener, pc) ==
    IF listener # "NULL" /\ pc = "deleted"
    THEN {"no", "dangling_listener"}
    ELSE {"no"}

\* dtr.c 146-165: the part of the ISR after the spinlock is released
TezTail ==
    /\ isr_pc = "tail"
    /\ aborted = "no"
    /\ IF PeriodOutOfRange(period_ticks)
       THEN /\ aborted' = "period_range"
            /\ UNCHANGED <<hw_shadow_period, shadow_period_ticks,
                           notify_pending, cb_calls, cb_arg, isr_pc, wake>>
       ELSE /\ hw_shadow_period' = Uint16(period_ticks)
            /\ shadow_period_ticks' = Uint16(period_ticks)
            /\ notify_pending' =
                  IF s_tez_listener_task # "NULL" THEN TRUE
                  ELSE notify_pending
            /\ wake' = IF s_tez_listener_task # "NULL"
                       THEN [sent |-> TRUE, tez |-> tez_count,
                             tb |-> timer_base_ticks]
                       ELSE wake
            /\ IF CallbackDue(s_state, s_app_callback)
               THEN cb_calls' = cb_calls + 1 /\ cb_arg' = cycle_counter
               ELSE UNCHANGED <<cb_calls, cb_arg>>
            /\ isr_pc' = "idle"
            /\ aborted' \in NotifyOutcomes(s_tez_listener_task, task_pc)
    /\ UNCHANGED <<role, s_state, cycle_counter, active_period_ticks,
                   timer_base_ticks, period_ticks, base_period_fp16,
                   period_ticks_frac_acc, s_app_callback, mailVars,
                   s_tez_listener_task, timer_running, gen_force_low,
                   taskVars, tez_count, isr_branch, applied, dither_n,
                   dither_sum, hw_hist, fetched, fetch_count>>
    /\ UNCHANGED libVars

-----------------------------------------------------------------------------
(* DTC projections (dtc.c) and the requests of the two protocols           *)

\* DTR_NS_TO_TICKS(ns)
DTR_NS_TO_TICKS(ns) == TruncDiv(ns * TIMER_TICKS_PER_US, 1000)

\* dtc.c 41-49; slope_rl_m1 = (den - num) / num = -ppm / (SlopeDen + ppm)
dtc_local_to_remote(local_ticks, crm_ref_local_ticks, crm_ref_remote_ticks, ppm) ==
    LET delta_local_ticks == local_ticks - crm_ref_local_ticks
        delta_remote_ticks ==
            delta_local_ticks
                + TruncMul(delta_local_ticks, -ppm, SlopeDen + ppm)
    IN crm_ref_remote_ticks + delta_remote_ticks

\* dtc.c 54-62, with the slope of the other direction
dtc_remote_to_local_InverseSlope(remote_ticks, crm_ref_local_ticks, crm_ref_remote_ticks, ppm) ==
    LET delta_remote_ticks == remote_ticks - crm_ref_remote_ticks
        delta_local_ticks ==
            delta_remote_ticks
                + TruncMul(delta_remote_ticks, -ppm, SlopeDen + ppm)
    IN crm_ref_local_ticks + delta_local_ticks

\* dtc.c 54-62; slope_lr_m1 = (num - den) / den = ppm / SlopeDen
dtc_remote_to_local(remote_ticks, crm_ref_local_ticks, crm_ref_remote_ticks, ppm) ==
    LET delta_remote_ticks == remote_ticks - crm_ref_remote_ticks
        delta_local_ticks ==
            delta_remote_ticks + TruncMul(delta_remote_ticks, ppm, SlopeDen)
    IN crm_ref_local_ticks + delta_local_ticks

\* dtc.c 69-75: (int64_t)(B + B * slope_lr_m1) with B = PERIOD * 65536.  The
\* sum is positive, so the conversion is its floor.  B * ppm / SlopeDen is
\* computed with the common factor 10000 of B and SlopeDen divided out.
dtc_calculate_period_fp16(ppm) ==
    LET B == DTR_TIMER_PERIOD_TICKS * FP16_SCALE
    IN B + (((B \div 10000) * ppm) \div (SlopeDen \div 10000))

\* dtc.c 118, without the two cycles of lead
AlignedCycle_NoLead(remote_ticks) ==
    (remote_ticks + (DTR_TIMER_PERIOD_TICKS \div 2)) \div DTR_TIMER_PERIOD_TICKS

\* dtc.c 118: the nearest period boundary of remote_ticks, plus 2 cycles
AlignedCycle(remote_ticks) ==
    ((remote_ticks + (DTR_TIMER_PERIOD_TICKS \div 2))
        \div DTR_TIMER_PERIOD_TICKS) + 2

\* dtc.c 104-136: the request the DTC publishes for a sampled timer base.
\* remote_ticks is >= 0 for the fits CrmUpdated admits, so the unsigned
\* division of dtc.c 118 is the integer quotient.
DtcRequest(timer_base, m) ==
    LET crm_ref_local_ticks == TruncDiv(m.local_ref_ps, DTR_PS_PER_TICK)
        crm_ref_remote_ticks == TruncDiv(m.remote_ref_ps, DTR_PS_PER_TICK)
        remote_ticks ==
            dtc_local_to_remote(timer_base, crm_ref_local_ticks,
                                crm_ref_remote_ticks, m.ppm)
        aligned_cycle_counter == AlignedCycle(remote_ticks)
        aligned_remote_ticks == aligned_cycle_counter * DTR_TIMER_PERIOD_TICKS
        aligned_local_ticks ==
            dtc_remote_to_local(aligned_remote_ticks, crm_ref_local_ticks,
                                crm_ref_remote_ticks, m.ppm)
                + DTR_NS_TO_TICKS(DTR_COMPENSATION_NS)
    IN [pending |-> TRUE,
        aligned_local_ticks |-> aligned_local_ticks,
        aligned_cycle_counter |-> aligned_cycle_counter,
        aligned_base_period_fp16 |-> dtc_calculate_period_fp16(m.ppm)]

\* dtr.c 511-521, with a target two periods after the sampled base
MasterRequest_Unsnapped(timer_base) ==
    LET current_cycle_count == timer_base \div DTR_TIMER_PERIOD_TICKS
        aligned_cycle_count == current_cycle_count + 2
    IN [pending |-> TRUE,
        aligned_local_ticks |-> timer_base + (2 * DTR_TIMER_PERIOD_TICKS),
        aligned_cycle_counter |-> aligned_cycle_count,
        aligned_base_period_fp16 |-> DTR_TIMER_PERIOD_TICKS * FP16_SCALE]

\* dtr.c 511-521: the request of the master alignment
MasterRequest(timer_base) ==
    LET current_cycle_count == timer_base \div DTR_TIMER_PERIOD_TICKS
        aligned_cycle_count == current_cycle_count + 2
    IN [pending |-> TRUE,
        aligned_local_ticks |-> aligned_cycle_count * DTR_TIMER_PERIOD_TICKS,
        aligned_cycle_counter |-> aligned_cycle_count,
        aligned_base_period_fp16 |-> DTR_TIMER_PERIOD_TICKS * FP16_SCALE]

\* dtr.c 545: the feedback slot after dtr_set_align_request
FeedbackAfterPublish_Keep(fb) == fb
FeedbackAfterPublish(fb) == [fb EXCEPT !.ready = FALSE]

\* dtr.c 562-564: the feedback slot after a fetch (the fetch copies it)
FeedbackAfterFetch_Clears(fb) == [fb EXCEPT !.ready = FALSE]
FeedbackAfterFetch(fb) == fb

-----------------------------------------------------------------------------
(* Task-side operations                                                    *)

\* dtr_start_timer up to the start of the timer (s_enable_and_start_timer)
StartTimer ==
    /\ task_pc = "start"
    /\ aborted = "no"
    /\ IF s_state # "NotStarted"
       THEN /\ aborted' = "already_started"
            /\ UNCHANGED <<timer_base_ticks, cycle_counter, s_state,
                           timer_running, task_pc>>
       ELSE /\ timer_base_ticks' = 0
            /\ cycle_counter' = 0
            /\ s_state' = "Running"
            /\ timer_running' = TRUE
            /\ task_pc' = "measure"
            /\ aborted' = aborted
    /\ UNCHANGED <<role, active_period_ticks, shadow_period_ticks,
                   period_ticks, base_period_fp16, period_ticks_frac_acc,
                   s_app_callback, mailVars, s_tez_listener_task,
                   hw_shadow_period, gen_force_low, notify_pending, isr_pc,
                   tb_sample, crm, crm_updates, s_first_update, isrHist,
                   fetched, fetch_count>>
    /\ UNCHANGED libVars

\* dtr_start_timer: the measured offset is added under the spinlock
AddOffset(offset) ==
    /\ task_pc = "measure"
    /\ aborted = "no"
    /\ timer_base_ticks' = timer_base_ticks + offset
    /\ hw_hist' = [hw_hist EXCEPT !.offset = @ + offset]
    /\ task_pc' = IF role = "master" THEN "reg" ELSE "idle"
    /\ UNCHANGED <<role, s_state, cycle_counter, active_period_ticks,
                   shadow_period_ticks, period_ticks, base_period_fp16,
                   period_ticks_frac_acc, s_app_callback, mailVars,
                   s_tez_listener_task, hwVars, notify_pending, isr_pc,
                   aborted, tb_sample, crm, crm_updates, s_first_update,
                   tez_count, isr_branch, applied, cb_calls, cb_arg,
                   dither_n, dither_sum, wake, fetched, fetch_count>>
    /\ UNCHANGED libVars

\* dtc.c 83-85: where dtc_crm_updated goes after its crm_valid test
DtcEntry_Always(valid) == "reg"
DtcEntry(valid) == IF valid THEN "reg" ELSE "idle"

\* A CRM fit is published and the callback dtc_crm_updated runs up to its
\* crm_valid test.  The centroid of a fit lies in the past of the timer.
CrmUpdated(m) ==
    /\ role = "slave"
    /\ task_pc = "idle"
    /\ aborted = "no"
    /\ crm_updates < MaxCrmUpdates
    /\ TruncDiv(m.local_ref_ps, DTR_PS_PER_TICK) <= timer_base_ticks
    /\ crm' = m
    /\ crm_updates' = crm_updates + 1
    /\ task_pc' = DtcEntry(m.valid)
    /\ UNCHANGED <<role, dtrVars, s_app_callback, mailVars,
                   s_tez_listener_task, hwVars, notify_pending, isr_pc,
                   aborted, tb_sample, s_first_update, isrHist, fetched,
                   fetch_count>>
    /\ UNCHANGED libVars

\* dtr_register_tez_listener(xTaskGetCurrentTaskHandle())
RegisterListener ==
    /\ task_pc = "reg"
    /\ aborted = "no"
    /\ s_tez_listener_task' = "task"
    /\ task_pc' = "clear"
    /\ UNCHANGED <<role, dtrVars, s_app_callback, mailVars, hwVars,
                   notify_pending, isr_pc, aborted, tb_sample, crm,
                   crm_updates, s_first_update, isrHist, fetched,
                   fetch_count>>
    /\ UNCHANGED libVars

\* xTaskNotifyStateClear(NULL)
ClearNotify ==
    /\ task_pc = "clear"
    /\ aborted = "no"
    /\ notify_pending' = FALSE
    /\ wake' = NoWake
    /\ task_pc' = "wait1"
    /\ UNCHANGED <<role, dtrVars, s_app_callback, mailVars,
                   s_tez_listener_task, hwVars, isr_pc, aborted, tb_sample,
                   crm, crm_updates, s_first_update, tez_count, isr_branch,
                   applied, cb_calls, cb_arg, dither_n, dither_sum, hw_hist,
                   fetched, fetch_count>>
    /\ UNCHANGED libVars

\* dtr.c 493: xTaskNotifyWait returns pdTRUE for a pending notification
WaitReturns_Always(pending) == TRUE
WaitReturns(pending) == pending

\* dtr_wait_for_tez: returns once a notification is pending.  The timeout
\* of 1 s, two thousand nominal periods, passes without a notification
\* only when the timer delivers no TEZ any more.
WaitForTez ==
    /\ task_pc \in {"wait1", "wait2"}
    /\ aborted = "no"
    /\ IF WaitReturns(notify_pending)
       THEN /\ notify_pending' = FALSE
            /\ task_pc' = IF task_pc = "wait1" THEN "sample" ELSE "grab"
            /\ aborted' = aborted
       ELSE /\ ~timer_running
            /\ isr_pc = "idle"
            /\ aborted' = "tez_timeout"
            /\ UNCHANGED <<notify_pending, task_pc>>
    /\ UNCHANGED <<role, dtrVars, s_app_callback, mailVars,
                   s_tez_listener_task, hwVars, isr_pc, tb_sample,
                   crm, crm_updates, s_first_update, isrHist, fetched,
                   fetch_count>>
    /\ UNCHANGED libVars

\* dtr_get_timer_base_ticks
SampleTimerBase ==
    /\ task_pc = "sample"
    /\ aborted = "no"
    /\ tb_sample' = timer_base_ticks
    /\ task_pc' = "publish"
    /\ UNCHANGED <<role, dtrVars, s_app_callback, mailVars,
                   s_tez_listener_task, hwVars, notify_pending, isr_pc,
                   aborted, crm, crm_updates, s_first_update, isrHist,
                   fetched, fetch_count>>
    /\ UNCHANGED libVars

\* dtr.c 539-545: dtr_set_align_request stores the base period in the
\* mailbox only, base_period_fp16 is left to the ISR
BasePeriodAfterPublish_Direct(base, req) == req.aligned_base_period_fp16
BasePeriodAfterPublish(base, req) == base

\* dtr_set_align_request with the request of the protocol in progress
PublishRequest ==
    /\ task_pc = "publish"
    /\ aborted = "no"
    /\ s_align_request' = IF role = "master" THEN MasterRequest(tb_sample)
                          ELSE DtcRequest(tb_sample, crm)
    /\ s_align_feedback' = FeedbackAfterPublish(s_align_feedback)
    /\ base_period_fp16' =
          BasePeriodAfterPublish(base_period_fp16, s_align_request')
    /\ task_pc' = "wait2"
    /\ UNCHANGED <<role, s_state, cycle_counter, active_period_ticks,
                   shadow_period_ticks, timer_base_ticks, period_ticks,
                   period_ticks_frac_acc, s_app_callback, s_tez_listener_task,
                   hwVars, notify_pending, isr_pc, aborted, tb_sample, crm,
                   crm_updates, s_first_update, isrHist, fetched,
                   fetch_count>>
    /\ UNCHANGED libVars

\* dtr_grab_n_log_align_feedback, and the caller's step after it
GrabFeedback ==
    /\ task_pc = "grab"
    /\ aborted = "no"
    /\ fetched' = s_align_feedback
    /\ fetch_count' = fetch_count + 1
    /\ s_align_feedback' = FeedbackAfterFetch(s_align_feedback)
    /\ IF ~s_align_feedback.ready
       THEN \* assert(feedback.ready) fails
            /\ aborted' = "feedback_assert"
            /\ UNCHANGED <<task_pc, s_first_update>>
       ELSE /\ aborted' = aborted
            /\ task_pc' = IF role = "master" THEN "unreg" ELSE "idle"
            /\ s_first_update' =
                  IF role = "master" THEN s_first_update ELSE FALSE
    /\ UNCHANGED <<role, dtrVars, s_app_callback, s_align_request,
                   s_tez_listener_task, hwVars, notify_pending, isr_pc,
                   tb_sample, crm, crm_updates, isrHist>>
    /\ UNCHANGED libVars

\* dtr_register_tez_listener(NULL) at the end of dtr_align_master_timer
UnregisterListener ==
    /\ task_pc = "unreg"
    /\ aborted = "no"
    /\ s_tez_listener_task' = "NULL"
    /\ task_pc' = "done"
    /\ UNCHANGED <<role, dtrVars, s_app_callback, mailVars, hwVars,
                   notify_pending, isr_pc, aborted, tb_sample, crm,
                   crm_updates, s_first_update, isrHist, fetched,
                   fetch_count>>
    /\ UNCHANGED libVars

-----------------------------------------------------------------------------
Next ==
    \/ TezCritical(MaxTez)
    \/ TezTail
    \/ StartTimer
    \/ \E offset \in OffsetSet : AddOffset(offset)
    \/ \E m \in CrmModels : CrmUpdated(m)
    \/ RegisterListener
    \/ ClearNotify
    \/ WaitForTez
    \/ SampleTimerBase
    \/ PublishRequest
    \/ GrabFeedback
    \/ UnregisterListener

Spec == Init /\ [][Next]_vars

\* The MCPWM timer stops and delivers no further TEZ
TimerFault ==
    /\ timer_running
    /\ aborted = "no"
    /\ timer_running' = FALSE
    /\ UNCHANGED <<role, dtrVars, s_app_callback, mailVars,
                   s_tez_listener_task, hw_shadow_period, gen_force_low,
                   notify_pending, isr_pc, aborted, taskVars, isrHist,
                   fetched, fetch_count>>
    /\ UNCHANGED libVars

MaxWaitTez == 3   \* TEZ interrupts before and after the fault

\* The protocols on a timer that may stop
NextWait ==
    \/ TezCritical(MaxWaitTez)
    \/ TezTail
    \/ StartTimer
    \/ \E offset \in OffsetSet : AddOffset(offset)
    \/ \E m \in CrmModels : CrmUpdated(m)
    \/ RegisterListener
    \/ ClearNotify
    \/ WaitForTez
    \/ SampleTimerBase
    \/ PublishRequest
    \/ GrabFeedback
    \/ UnregisterListener
    \/ TimerFault

SpecWait == Init /\ [][NextWait]_vars

\* ftm.c 397-407: WIFI_EVENT_STA_DISCONNECTED on the slave.  The handler
\* ends the FTM session and deletes the FTM task, wherever that task is,
\* and starts to reconnect; the DTR is not told.
WifiDisconnect ==
    /\ role = "slave"
    /\ task_pc \in {"idle", "reg", "clear", "wait1", "sample", "publish",
                     "wait2", "grab"}
    /\ aborted = "no"
    /\ task_pc' = "deleted"
    /\ UNCHANGED <<role, dtrVars, s_app_callback, mailVars,
                   s_tez_listener_task, hwVars, notify_pending, isr_pc,
                   aborted, tb_sample, crm, crm_updates, s_first_update,
                   isrHist, fetched, fetch_count>>
    /\ UNCHANGED libVars

\* The protocols with a WiFi link that may drop
NextWifi ==
    \/ TezCritical(MaxTez)
    \/ TezTail
    \/ StartTimer
    \/ \E offset \in OffsetSet : AddOffset(offset)
    \/ \E m \in CrmModels : CrmUpdated(m)
    \/ RegisterListener
    \/ ClearNotify
    \/ WaitForTez
    \/ SampleTimerBase
    \/ PublishRequest
    \/ GrabFeedback
    \/ UnregisterListener
    \/ WifiDisconnect

SpecWifi == Init /\ [][NextWifi]_vars

-----------------------------------------------------------------------------
(* Dithering in isolation: the timer runs on a constant base period, with  *)
(* the accumulator at 0 and no request published (the state an applied     *)
(* alignment without roll-forward leaves), and only TEZ interrupts occur.  *)

\* Base periods P * 65536 + f
DitherBaseSet ==
    { 20000 * FP16_SCALE,
      20000 * FP16_SCALE + 1,
      20000 * FP16_SCALE + 65535,
      19999 * FP16_SCALE + 64225,
      20001 * FP16_SCALE + 32768 }

\* The slave after its first alignment (target cycle 3, target ticks 59992)
\* was applied at timer base 40000 and its feedback was fetched
InitDither ==
    /\ role = "slave"
    /\ s_app_callback = "fts_callback"
    /\ s_state = "Aligned"
    /\ cycle_counter = 3
    /\ timer_base_ticks = 40000
    /\ period_ticks = 19992
    /\ active_period_ticks = DTR_TIMER_PERIOD_TICKS
    /\ shadow_period_ticks = 19992
    /\ base_period_fp16 \in DitherBaseSet
    /\ period_ticks_frac_acc = 0
    /\ s_align_request =
          [pending |-> FALSE, aligned_local_ticks |-> 59992,
           aligned_cycle_counter |-> 3,
           aligned_base_period_fp16 |-> base_period_fp16]
    /\ s_align_feedback =
          [ready |-> TRUE, cycle_counter |-> 3, cycle_delta |-> 0,
           period_ticks |-> 19992, period_ticks_delta |-> -8]
    /\ s_tez_listener_task = "task"
    /\ timer_running = TRUE
    /\ hw_shadow_period = 19992
    /\ gen_force_low = FALSE
    /\ notify_pending = FALSE
    /\ isr_pc = "idle"
    /\ aborted = "no"
    /\ task_pc = "idle"
    /\ tb_sample = 20000
    /\ crm = NoCrm
    /\ crm_updates = MaxCrmUpdates
    /\ s_first_update = FALSE
    /\ tez_count = 0
    /\ isr_branch = "align"
    /\ applied = [cycle |-> 3, ticks |-> 59992, base |-> base_period_fp16,
                  tb |-> 40000, k |-> 0, old_cycle |-> 2]
    /\ cb_calls = 1
    /\ cb_arg = 3
    /\ fetched = s_align_feedback
    /\ fetch_count = 1
    /\ dither_n = 0
    /\ dither_sum = 0
    /\ wake = NoWake
    /\ hw_hist = [elapsed |-> 40000, running |-> DTR_TIMER_PERIOD_TICKS,
                  offset |-> 0]
    /\ LibIdle

NextDither ==
    \/ TezCritical(MaxDitherN)
    \/ TezTail

SpecDither == InitDither /\ [][NextDither]_vars

-----------------------------------------------------------------------------
(* Properties                                                              *)

\* A step of the ISR part under the spinlock
TezStep == tez_count' = tez_count + 1

\* The ticks k roll-forward steps add, starting from accumulator 0
RollSum(k, base) ==
    (k * (base \div FP16_SCALE)) + MulDivFloor(k, base % FP16_SCALE)

\* The smallest number of roll-forward steps, from k on, that brings a
\* period of pt0 to at least DTR_MIN_PERIOD_TICKS
RECURSIVE MinRollSteps(_, _, _)
MinRollSteps(pt0, k, base) ==
    IF pt0 + RollSum(k, base) >= DTR_MIN_PERIOD_TICKS THEN k
    ELSE MinRollSteps(pt0, k + 1, base)

-----------------------------------------------------------------------------
\* C1: a TEZ that starts with a request pending consumes it in that very
\* ISR: it clears pending, takes the align branch (never the dithering
\* branch), installs the request's base period, and leaves cycle_counter
\* and period_ticks at the request's target cycle and target ticks, moved
\* forward by the same number k >= 0 of roll-forward steps.
C1_RequestConsumedAtNextTez ==
    [][ (TezStep /\ s_align_request.pending) =>
          LET req == s_align_request
              k == cycle_counter' - req.aligned_cycle_counter
          IN /\ ~s_align_request'.pending
             /\ isr_branch' = "align"
             /\ s_align_feedback'.ready
             /\ base_period_fp16' = req.aligned_base_period_fp16
             /\ k >= 0
             /\ period_ticks' =
                   (req.aligned_local_ticks - timer_base_ticks')
                       + RollSum(k, req.aligned_base_period_fp16)
      ]_vars

\* A request has been consumed by the TEZ that followed its publication
C1_Witness ==
    /\ isr_branch = "align"
    /\ ~s_align_request.pending
    /\ s_align_request.aligned_cycle_counter > 0
    /\ applied.cycle = s_align_request.aligned_cycle_counter
    /\ base_period_fp16 = s_align_request.aligned_base_period_fp16

\* C2: when the second wait of the DTC protocol or of the master alignment
\* has returned and the task is about to fetch, the feedback is ready and
\* is the result of the request just published (so assert(feedback.ready)
\* holds).
C2_FetchSeesAppliedRequest ==
    task_pc = "grab" =>
        /\ s_align_feedback.ready
        /\ ~s_align_request.pending
        /\ s_align_feedback.cycle_counter =
              s_align_request.aligned_cycle_counter + applied.k

\* C3 as stated: at the end of the ISR part that applied a request,
\* cycle_counter = C* + k for the smallest k that brings the period to
\* DTR_MIN_PERIOD_TICKS, and timer_base_ticks + period_ticks = L*.
C3_ApplyAsStated ==
    (isr_pc = "tail" /\ isr_branch = "align") =>
        /\ cycle_counter = applied.cycle
              + MinRollSteps(applied.ticks - timer_base_ticks, 0,
                             applied.base)
        /\ timer_base_ticks + period_ticks = applied.ticks

\* C3 amended: cycle_counter = C* + k for the k >= 0 roll-forward steps
\* taken, timer_base_ticks + period_ticks = L* + k*P + floor(k*f/65536)
\* (so = L* exactly when k = 0); k is the smallest number of steps that
\* brings the period to DTR_MIN_PERIOD_TICKS when L* - timer_base_ticks
\* >= 0, and k = 0 when L* - timer_base_ticks < 0.
C3_ApplyAmended ==
    (isr_pc = "tail" /\ isr_branch = "align") =>
        LET k == cycle_counter - applied.cycle
            pt0 == applied.ticks - timer_base_ticks
        IN /\ k >= 0
           /\ timer_base_ticks + period_ticks =
                 applied.ticks + RollSum(k, applied.base)
           /\ pt0 >= 0 => k = MinRollSteps(pt0, 0, applied.base)
           /\ pt0 < 0 => k = 0

\* A request was applied with one or more roll-forward steps
C3_Witness ==
    /\ isr_pc = "tail"
    /\ isr_branch = "align"
    /\ cycle_counter > applied.cycle
    /\ period_ticks >= DTR_MIN_PERIOD_TICKS
    /\ timer_base_ticks + period_ticks > applied.ticks

\* C4: the shadow period register and shadow_period_ticks are written only
\* by an ISR that completes, with the period_ticks of that ISR, which is
\* then in 1..65535; an ISR whose period_ticks is outside 1..65535 aborts
\* and leaves both untouched.
C4_ShadowPeriodInRange ==
    /\ [](hw_shadow_period >= 1 /\ hw_shadow_period <= UINT16_MAX)
    /\ [][ /\ (isr_pc = "tail" /\ isr_pc' = "idle") =>
                /\ period_ticks >= 1
                /\ period_ticks <= UINT16_MAX
                /\ hw_shadow_period' = period_ticks
                /\ shadow_period_ticks' = period_ticks
           /\ (hw_shadow_period' # hw_shadow_period
                 \/ shadow_period_ticks' # shadow_period_ticks) =>
                (isr_pc = "tail" /\ isr_pc' = "idle")
           /\ (aborted = "no" /\ aborted' = "period_range") =>
                /\ isr_pc = "tail"
                /\ (period_ticks < 1 \/ period_ticks > UINT16_MAX)
                /\ UNCHANGED <<hw_shadow_period, shadow_period_ticks>>
         ]_vars

\* An ISR computed a period outside 1..65535 and aborted before the write
C4_Witness ==
    /\ aborted = "period_range"
    /\ (period_ticks < 1 \/ period_ticks > UINT16_MAX)
    /\ hw_shadow_period # period_ticks
    /\ shadow_period_ticks = hw_shadow_period

\* C5: s_state changes only NotStarted -> Running, by start_timer, and
\* Running -> Aligned, by a TEZ that applies a request; a TEZ that applies
\* a request in state Running leaves Aligned; nothing leaves Aligned.
C5_StateMonotone ==
    [][ /\ s_state' # s_state =>
              \/ /\ s_state = "NotStarted"
                 /\ s_state' = "Running"
                 /\ task_pc = "start"
                 /\ task_pc' = "measure"
              \/ /\ s_state = "Running"
                 /\ s_state' = "Aligned"
                 /\ TezStep
                 /\ s_align_request.pending
        /\ (TezStep /\ s_align_request.pending /\ s_state = "Running") =>
              s_state' = "Aligned"
      ]_vars

\* A second alignment was applied in state Aligned, which is kept
C5_Witness ==
    /\ s_state = "Aligned"
    /\ ~s_first_update
    /\ isr_branch = "align"
    /\ fetch_count = 0

\* C6: an ISR that completes has invoked the installed callback exactly
\* once, with the cycle_counter it leaves, if it ends in state Aligned,
\* and has not invoked it otherwise.
C6_CallbackOncePerAlignedTez ==
    (isr_pc = "idle" /\ tez_count > 0) =>
        IF s_state = "Aligned" /\ s_app_callback # "NULL"
        THEN cb_calls = 1 /\ cb_arg = cycle_counter
        ELSE cb_calls = 0

\* The TEZ that applied the first alignment has invoked the callback
C6_Witness ==
    /\ isr_pc = "idle"
    /\ isr_branch = "align"
    /\ s_first_update
    /\ s_state = "Aligned"
    /\ cb_calls = 1
    /\ cb_arg = cycle_counter

\* C7: in the slave build the output is forced low exactly while the state
\* is not Aligned; the force changes only in the TEZ that moves Running to
\* Aligned, which releases it.
C7_ForceUntilAligned ==
    /\ [](role = "slave" => (gen_force_low <=> s_state # "Aligned"))
    /\ [][ gen_force_low' # gen_force_low =>
              /\ gen_force_low
              /\ TezStep
              /\ s_align_request.pending
              /\ s_state = "Running"
              /\ s_state' = "Aligned"
         ]_vars

\* The slave reached Aligned and the force is released
C7_Witness ==
    /\ role = "slave"
    /\ s_state = "Aligned"
    /\ ~gen_force_low
    /\ isr_branch = "align"

\* C8: with a constant base period P*65536 + f and the accumulator starting
\* at 0, after N dithering TEZs the periods produced sum to
\* N*P + floor(N*f/65536), and each of them is P or P + 1.
C8_DitherSum ==
    LET P == base_period_fp16 \div FP16_SCALE
        f == base_period_fp16 % FP16_SCALE
    IN /\ dither_sum = (dither_n * P) + MulDivFloor(dither_n, f)
       /\ isr_branch = "dither" => period_ticks \in {P, P + 1}

\* 65536 dithering TEZs with f > 0 sum to exactly 65536*P + f
C8_Witness ==
    /\ dither_n = FP16_SCALE
    /\ base_period_fp16 % FP16_SCALE > 0
    /\ dither_sum = base_period_fp16

\* C9 as stated: once the feedback of an applied request has been fetched,
\* ready is false (a second fetch would see ready == false).
C9_ReadyClearedByFetch ==
    fetch_count >= 1 => ~s_align_feedback.ready

\* C9 amended: ready becomes true only in a TEZ that consumes a request and
\* becomes false only when set_align_request publishes a request; a fetch
\* leaves the feedback slot as it is.
C9_ReadyUntilNextPublish ==
    [][ /\ (~s_align_feedback.ready /\ s_align_feedback'.ready) =>
              (TezStep /\ s_align_request.pending)
        /\ (s_align_feedback.ready /\ ~s_align_feedback'.ready) =>
              (task_pc = "publish" /\ s_align_request'.pending)
        /\ (fetch_count' = fetch_count + 1) =>
              (s_align_feedback' = s_align_feedback
                 /\ fetched' = s_align_feedback)
      ]_vars

\* The feedback of an applied request was fetched and ready is still true
C9_Witness ==
    /\ fetch_count >= 1
    /\ fetched.ready
    /\ s_align_feedback.ready
    /\ s_align_feedback = fetched

\* C10 as stated: a TEZ without a pending request increases cycle_counter
\* by 1; a TEZ that applies a request of the DTC or of the master alignment
\* (and whose period passes the range check) leaves it >= its value at the
\* previous TEZ.
C10_CycleNeverDecreases ==
    [][ TezStep =>
          IF ~s_align_request.pending
          THEN cycle_counter' = cycle_counter + 1
          ELSE ~PeriodOutOfRange(period_ticks') =>
                  cycle_counter' >= cycle_counter
      ]_vars

\* C10 amended: a TEZ without a pending request increases cycle_counter by
\* 1; a TEZ that applies a request sets it to the request's target cycle
\* plus the roll-forward steps; for a request of the master alignment
\* (whose period passes the range check) that is greater than the previous
\* value, for a request of the DTC it may be lower.
C10_CycleFollowsTarget ==
    [][ TezStep =>
          IF ~s_align_request.pending
          THEN cycle_counter' = cycle_counter + 1
          ELSE /\ cycle_counter' >= s_align_request.aligned_cycle_counter
               /\ cycle_counter' - s_align_request.aligned_cycle_counter
                     = applied'.k
               /\ (role = "master" /\ ~PeriodOutOfRange(period_ticks')) =>
                     cycle_counter' > cycle_counter
      ]_vars

\* The DTC's request moved cycle_counter below its previous value
C10_Witness ==
    /\ role = "slave"
    /\ isr_branch = "align"
    /\ isr_pc = "idle"
    /\ cycle_counter < applied.old_cycle

-----------------------------------------------------------------------------
\* C11: cycle_counter starts at -1 so that the first TEZ after dtr_init and
\* dtr_start_timer increments it to 0: once the first TEZ ISR has run (and
\* until the second one runs) cycle_counter is 0.
C11_FirstTezLeavesZero ==
    (tez_count = 1) => (cycle_counter = 0)

-----------------------------------------------------------------------------
(* Counter unwrapping, clock_unwrap (clock.c)                              *)

MaxUnwrapCalls == 3   \* calls of clock_unwrap in a run of SpecUnwrap
UnwrapModulus == 8    \* primary wrap period of the unwrap states tried

\* Unwrap states as their owners construct them: {0, 0, 0, wrap, wrap2}
UnwrapConfigs ==
    { UnwrapState(UnwrapModulus, w2) : w2 \in {0, 1, 3} }

\* Raw values handed to clock_unwrap
RawSet == (-1) .. (UnwrapModulus - 1)

\* clock.c 27: the wrap test
WrapDetected_NoSentinel(val, state) == val < state.last_val
WrapDetected(val, state) == state.last_val # 0 /\ val < state.last_val

\* clock.c 31-35: what a wrap adds to the offset
WrapIncrement_OnVal(val, state) ==
    IF state.wrap_value2 > 0 /\ val < state.wrap_value2
    THEN state.wrap_value2
    ELSE state.wrap_value
WrapIncrement(val, state) ==
    IF state.wrap_value2 > 0 /\ state.last_val < state.wrap_value2
    THEN state.wrap_value2
    ELSE state.wrap_value

\* clock.c 24-40: the state left and the value returned
clock_unwrap_StaleOffset(val, state) ==
    LET s1 == IF WrapDetected(val, state)
              THEN [state EXCEPT !.wrap_count = @ + 1,
                                 !.offset = @ + WrapIncrement(val, state)]
              ELSE state
    IN [state |-> [s1 EXCEPT !.last_val = val], ret |-> val + state.offset]
clock_unwrap(val, state) ==
    LET s1 == IF WrapDetected(val, state)
              THEN [state EXCEPT !.wrap_count = @ + 1,
                                 !.offset = @ + WrapIncrement(val, state)]
              ELSE state
    IN [state |-> [s1 EXCEPT !.last_val = val], ret |-> val + s1.offset]

\* The DTR as dtr_init leaves it, taking no step
DtrQuiet == DtrInit /\ role = "slave" /\ s_app_callback = "fts_callback"

InitUnwrap ==
    /\ DtrQuiet
    /\ unwrap_state \in UnwrapConfigs
    /\ uw_hist = NoUnwrapHist
    /\ ClockIdle
    /\ CrmIdle
    /\ AuxIdleExcept("none")

\* One call clock_unwrap(val, &unwrap_state)
UnwrapCall(val) ==
    /\ uw_hist.calls < MaxUnwrapCalls
    /\ LET r == clock_unwrap(val, unwrap_state)
       IN /\ unwrap_state' = r.state
          /\ uw_hist' =
                [calls |-> uw_hist.calls + 1,
                 in_range |-> /\ uw_hist.in_range
                              /\ val >= 0
                              /\ val < unwrap_state.wrap_value,
                 val |-> val,
                 ret |-> r.ret,
                 wrapped |-> r.state.wrap_count # unwrap_state.wrap_count,
                 prev_val |-> uw_hist.val,
                 prev_ret |-> uw_hist.ret,
                 pre |-> unwrap_state]
    /\ UNCHANGED <<dtrAll, clockVars, crmVars, auxVars>>

NextUnwrap == \E val \in RawSet : UnwrapCall(val)

SpecUnwrap == InitUnwrap /\ [][NextUnwrap]_vars

-----------------------------------------------------------------------------
\* C12: for raw values in [0, wrap_value), as a counter that is monotone
\* modulo wrap_value produces them, the successive results of clock_unwrap
\* never decrease, with or without a secondary modulus wrap_value2.
C12_UnwrapMonotone ==
    (uw_hist.calls >= 2 /\ uw_hist.in_range)
        => uw_hist.ret >= uw_hist.prev_ret

\* A wrap taken with the secondary modulus, after an earlier result
C12_Witness ==
    /\ uw_hist.calls >= 2
    /\ uw_hist.in_range
    /\ uw_hist.wrapped
    /\ uw_hist.pre.wrap_value2 > 1
    /\ uw_hist.pre.last_val < uw_hist.pre.wrap_value2
    /\ uw_hist.ret > uw_hist.prev_ret

\* The rule of clock_unwrap as the claim C13 states it, for the latest call
UnwrapRule ==
    LET pre == uw_hist.pre
        wrap == pre.last_val # 0 /\ uw_hist.val < pre.last_val
        inc == IF pre.wrap_value2 > 0 /\ pre.last_val < pre.wrap_value2
               THEN pre.wrap_value2 ELSE pre.wrap_value
    IN uw_hist.calls >= 1 =>
         /\ unwrap_state.wrap_count
               = pre.wrap_count + (IF wrap THEN 1 ELSE 0)
         /\ unwrap_state.offset = pre.offset + (IF wrap THEN inc ELSE 0)
         /\ unwrap_state.last_val = uw_hist.val
         /\ unwrap_state.wrap_value = pre.wrap_value
         /\ unwrap_state.wrap_value2 = pre.wrap_value2
         /\ uw_hist.ret = uw_hist.val + unwrap_state.offset

\* The examples of C13 on a fresh state with secondary modulus W2 >= MinW2:
\* (W2 - 1, 0) returns (W2 - 1, W2), (W2 + 1, 0) returns (W2 + 1, wrap_value),
\* and without a secondary modulus (wrap_value - 1, 0) returns
\* (wrap_value - 1, wrap_value)
UnwrapExamples(MinW2) ==
    LET W == unwrap_state.wrap_value
        W2 == unwrap_state.wrap_value2
    IN (uw_hist.calls = 2 /\ uw_hist.val = 0) =>
         /\ (W2 >= MinW2 /\ uw_hist.prev_val = W2 - 1)
               => (uw_hist.prev_ret = W2 - 1 /\ uw_hist.ret = W2)
         /\ (W2 >= MinW2 /\ uw_hist.prev_val = W2 + 1)
               => (uw_hist.prev_ret = W2 + 1 /\ uw_hist.ret = W)
         /\ (W2 = 0 /\ uw_hist.prev_val = W - 1)
               => (uw_hist.prev_ret = W - 1 /\ uw_hist.ret = W)

\* C13 as stated: the wrap rule of clock_unwrap, and its examples for every
\* secondary modulus W2 > 0.
C13_UnwrapAsStated == UnwrapRule /\ UnwrapExamples(1)

\* C13 amended: the wrap rule of clock_unwrap, and its examples for every
\* secondary modulus W2 > 1 (with W2 = 1 the inputs (W2 - 1, 0) are (0, 0),
\* which is no wrap).
C13_UnwrapAmended == UnwrapRule /\ UnwrapExamples(2)

\* The two inputs (W2 - 1, 0) on a fresh state with W2 > 1
C13_Witness ==
    /\ uw_hist.calls = 2
    /\ unwrap_state.wrap_value2 > 1
    /\ uw_hist.prev_val = unwrap_state.wrap_value2 - 1
    /\ uw_hist.val = 0
    /\ uw_hist.ret = unwrap_state.wrap_value2
    /\ unwrap_state.wrap_count = 1

\* C14: the first call on a fresh unwrap state returns its argument and
\* registers no wrap, and for raw values in range every later call with a
\* raw value below the previous one registers a wrap.
C14_FirstCallIdentity ==
    /\ (uw_hist.calls = 1)
          => (uw_hist.ret = uw_hist.val /\ ~uw_hist.wrapped)
    /\ (uw_hist.calls >= 2 /\ uw_hist.in_range
            /\ uw_hist.val < uw_hist.prev_val)
          => uw_hist.wrapped

\* A second call below the first one, which was returned unchanged
C14_Witness ==
    /\ uw_hist.calls = 2
    /\ uw_hist.in_range
    /\ uw_hist.val < uw_hist.prev_val
    /\ uw_hist.prev_ret = uw_hist.prev_val
    /\ uw_hist.wrapped

-----------------------------------------------------------------------------
(* The MAC clock (clock.c): clock_init, clock_get_us, clock_get_base_us    *)

\* The raw counter of the hardware is 32 bits wide (wrap 2^32 us); the model
\* keeps its behaviour modulo a short wrap period
MAC_CLOCK_WRAP_US == 4

\* A run covers the first two wrap periods of the hardware count
MaxMacTime == 2 * MAC_CLOCK_WRAP_US - 1

\* esp_wifi_internal_get_mac_clock_time(): the count truncated to the
\* counter's width
MacClockTime(hw) == hw % MAC_CLOCK_WRAP_US

\* Time that passes between two steps; the delay of clock_init (1 ms)
TickSet == {1, MAC_CLOCK_WRAP_US}
InitDelaySet == {1, 2}

\* clock.c 130, 148: the test on s_initialized at the entry of a call
EntryAllowed_Always(initialized) == TRUE
EntryAllowed(initialized) == initialized

\* xSemaphoreTake(s_lock, portMAX_DELAY) returns once the mutex is free
LockAvailable_Always(lock) == TRUE
LockAvailable(lock) == lock = "free"

\* clock.c 101: the last_val clock_init seeds the unwrap state with
InitialLastVal_Zero(mac_clock2_us) == 0
InitialLastVal(mac_clock2_us) == mac_clock2_us

\* clock.c 120: s_initialized after the keep-alive task could not be created
RollbackInitialized_Keep(initialized) == initialized
RollbackInitialized(initialized) == FALSE

\* The tasks that exist: the keep-alive task is created by clock_init
TaskExists(t) ==
    \/ t = "main"
    \/ t = "clock_wdog" /\ s_watchdog_task_handle = "clock_wdog"

\* A task is at a point from which it can call into the clock component
Callable(t) ==
    /\ TaskExists(t)
    /\ clk_pc[t] \in (IF t = "main" THEN {"boot", "ready", "failed"}
                      ELSE {"idle"})

InitClock ==
    /\ DtrQuiet
    /\ UnwrapIdle
    /\ mac_running \in BOOLEAN
    /\ mac_hw \in {0, MAC_CLOCK_WRAP_US - 1, MAC_CLOCK_WRAP_US + 1}
    /\ s_unwrap_state = UnwrapState(MAC_CLOCK_WRAP_US, 0)
    /\ ClockStatics
    /\ CrmIdle
    /\ AuxIdleExcept("none")

\* The hardware counter advances
Tick(d) ==
    /\ clk_aborted = "no"
    /\ mac_running
    /\ mac_hw + d <= MaxMacTime
    /\ mac_hw' = mac_hw + d
    /\ UNCHANGED <<mac_running, s_initialized, s_unwrap_state, s_lock,
                   s_watchdog_task_handle, clk_pc, clk_local, init_ret,
                   clk_aborted, clk_hist>>
    /\ UNCHANGED <<dtrAll, unwrapVars, crmVars, auxVars>>

\* clock_init, clock.c 78-84: already initialised, or the first reading
InitEnter ==
    /\ clk_aborted = "no"
    /\ clk_pc["main"] \in {"boot", "ready"}
    /\ IF s_initialized
       THEN /\ init_ret' = "ESP_OK"
            /\ UNCHANGED <<clk_pc, clk_local>>
       ELSE /\ clk_pc' = [clk_pc EXCEPT !["main"] = "init_delay"]
            /\ clk_local' = [clk_local EXCEPT
                  !["main"].mac_clock1_us = MacClockTime(mac_hw)]
            /\ init_ret' = "none"
    /\ UNCHANGED <<mac_hw, mac_running, s_initialized, s_unwrap_state,
                   s_lock, s_watchdog_task_handle, clk_aborted, clk_hist>>
    /\ UNCHANGED <<dtrAll, unwrapVars, crmVars, auxVars>>

\* clock.c 85-91: the delay, the second reading and the test
InitSecondRead(d) ==
    /\ clk_aborted = "no"
    /\ clk_pc["main"] = "init_delay"
    /\ mac_hw + d <= MaxMacTime
    /\ LET hw2 == IF mac_running THEN mac_hw + d ELSE mac_hw
           mac_clock2_us == MacClockTime(hw2)
       IN /\ mac_hw' = hw2
          /\ clk_local' = [clk_local EXCEPT
                !["main"].mac_clock2_us = mac_clock2_us,
                !["main"].hw2 = hw2]
          /\ IF mac_clock2_us = clk_local["main"].mac_clock1_us
             THEN /\ clk_pc' = [clk_pc EXCEPT !["main"] = "failed"]
                  /\ init_ret' = "ESP_FAIL"
                  /\ clk_hist' =
                        [clk_hist EXCEPT !.fail_cause = "not_advancing"]
             ELSE /\ clk_pc' = [clk_pc EXCEPT !["main"] = "init_mutex"]
                  /\ UNCHANGED <<init_ret, clk_hist>>
    /\ UNCHANGED <<mac_running, s_initialized, s_unwrap_state, s_lock,
                   s_watchdog_task_handle, clk_aborted>>
    /\ UNCHANGED <<dtrAll, unwrapVars, crmVars, auxVars>>

\* clock.c 94-98: xSemaphoreCreateMutex
InitCreateMutex(ok) ==
    /\ clk_aborted = "no"
    /\ clk_pc["main"] = "init_mutex"
    /\ IF ok
       THEN /\ s_lock' = "free"
            /\ clk_pc' = [clk_pc EXCEPT !["main"] = "init_mark"]
            /\ UNCHANGED <<init_ret, clk_hist>>
       ELSE /\ clk_pc' = [clk_pc EXCEPT !["main"] = "failed"]
            /\ init_ret' = "ESP_FAIL"
            /\ clk_hist' = [clk_hist EXCEPT !.fail_cause = "mutex"]
            /\ UNCHANGED s_lock
    /\ UNCHANGED <<mac_hw, mac_running, s_initialized, s_unwrap_state,
                   s_watchdog_task_handle, clk_local, clk_aborted>>
    /\ UNCHANGED <<dtrAll, unwrapVars, crmVars, auxVars>>

\* clock.c 101-104: seed the unwrap state and mark the clock initialised
InitMark ==
    /\ clk_aborted = "no"
    /\ clk_pc["main"] = "init_mark"
    /\ s_unwrap_state' =
          [s_unwrap_state EXCEPT
              !.last_val = InitialLastVal(clk_local["main"].mac_clock2_us)]
    /\ s_initialized' = TRUE
    /\ clk_pc' = [clk_pc EXCEPT !["main"] = "init_task"]
    /\ clk_hist' = [clk_hist EXCEPT
          !.epoch = clk_local["main"].hw2 - clk_local["main"].mac_clock2_us,
          !.hw_last = clk_local["main"].hw2]
    /\ UNCHANGED <<mac_hw, mac_running, s_lock, s_watchdog_task_handle,
                   clk_local, init_ret, clk_aborted>>
    /\ UNCHANGED <<dtrAll, unwrapVars, crmVars, auxVars>>

\* clock.c 107-124: xTaskCreate of the keep-alive task, and the roll-back
InitCreateTask(ok) ==
    /\ clk_aborted = "no"
    /\ clk_pc["main"] = "init_task"
    /\ IF ok
       THEN /\ s_watchdog_task_handle' = "clock_wdog"
            /\ clk_pc' = [clk_pc EXCEPT !["main"] = "ready"]
            /\ init_ret' = "ESP_OK"
            /\ UNCHANGED <<s_lock, s_initialized, clk_hist>>
       ELSE /\ s_lock' = "NULL"
            /\ s_initialized' = RollbackInitialized(s_initialized)
            /\ clk_pc' = [clk_pc EXCEPT !["main"] = "failed"]
            /\ init_ret' = "ESP_FAIL"
            /\ clk_hist' = [clk_hist EXCEPT !.fail_cause = "task"]
            /\ UNCHANGED s_watchdog_task_handle
    /\ UNCHANGED <<mac_hw, mac_running, s_unwrap_state, clk_local,
                   clk_aborted>>
    /\ UNCHANGED <<dtrAll, unwrapVars, crmVars, auxVars>>

\* The entry of clock_get_us (to = "take") and of clock_get_base_us
\* (to = "base_take"): abort unless the clock is initialised
CallEnter(t, to) ==
    /\ clk_aborted = "no"
    /\ Callable(t)
    /\ IF EntryAllowed(s_initialized)
       THEN /\ clk_pc' = [clk_pc EXCEPT ![t] = to]
            /\ clk_local' = [clk_local EXCEPT ![t].from = clk_pc[t]]
            /\ UNCHANGED clk_aborted
       ELSE /\ clk_aborted' = "uninitialized"
            /\ UNCHANGED <<clk_pc, clk_local>>
    /\ UNCHANGED <<mac_hw, mac_running, s_initialized, s_unwrap_state,
                   s_lock, s_watchdog_task_handle, init_ret, clk_hist>>
    /\ UNCHANGED <<dtrAll, unwrapVars, crmVars, auxVars>>

GetUsEnter(t) == t \in ClockTasks /\ CallEnter(t, "take")

\* clock_get_base_us is called by the offset measurement of the DTR
GetBaseEnter(t) == t = "main" /\ CallEnter(t, "base_take")

\* clock.c 135, 154: xSemaphoreTake
Take(t) ==
    /\ clk_aborted = "no"
    /\ clk_pc[t] \in {"take", "base_take"}
    /\ LockAvailable(s_lock)
    /\ s_lock' = t
    /\ clk_pc' = [clk_pc EXCEPT
          ![t] = IF clk_pc[t] = "take" THEN "read" ELSE "base_read"]
    /\ UNCHANGED <<mac_hw, mac_running, s_initialized, s_unwrap_state,
                   s_watchdog_task_handle, clk_local, init_ret, clk_aborted,
                   clk_hist>>
    /\ UNCHANGED <<dtrAll, unwrapVars, crmVars, auxVars>>

\* clock.c 137: the raw reading
ReadRaw(t) ==
    /\ clk_aborted = "no"
    /\ clk_pc[t] = "read"
    /\ clk_local' = [clk_local EXCEPT ![t].hw = mac_hw]
    /\ clk_pc' = [clk_pc EXCEPT ![t] = "unwrap"]
    /\ UNCHANGED <<mac_hw, mac_running, s_initialized, s_unwrap_state,
                   s_lock, s_watchdog_task_handle, init_ret, clk_aborted,
                   clk_hist>>
    /\ UNCHANGED <<dtrAll, unwrapVars, crmVars, auxVars>>

\* clock.c 138: clock_unwrap((int64_t)mac_clock_us, &s_unwrap_state)
Unwrap(t) ==
    /\ clk_aborted = "no"
    /\ clk_pc[t] = "unwrap"
    /\ LET hw == clk_local[t].hw
           r == clock_unwrap(MacClockTime(hw), s_unwrap_state)
       IN /\ s_unwrap_state' = r.state
          /\ clk_local' = [clk_local EXCEPT ![t].ret = r.ret]
          /\ clk_hist' = [clk_hist EXCEPT
                !.reads = IF @ < 2 THEN @ + 1 ELSE 2,
                !.gap_ok = /\ @
                           /\ hw >= clk_hist.hw_last
                           /\ hw - clk_hist.hw_last < MAC_CLOCK_WRAP_US,
                !.hw_last = hw,
                !.prev_ret = clk_hist.ret,
                !.ret = r.ret]
    /\ clk_pc' = [clk_pc EXCEPT ![t] = "give"]
    /\ UNCHANGED <<mac_hw, mac_running, s_initialized, s_lock,
                   s_watchdog_task_handle, init_ret, clk_aborted>>
    /\ UNCHANGED <<dtrAll, unwrapVars, crmVars, auxVars>>

\* clock.c 140-142: xSemaphoreGive and return
Give(t) ==
    /\ clk_aborted = "no"
    /\ clk_pc[t] = "give"
    /\ s_lock' = "free"
    /\ clk_pc' = [clk_pc EXCEPT ![t] = clk_local[t].from]
    /\ clk_local' = [clk_local EXCEPT ![t].hw = 0]
    /\ UNCHANGED <<mac_hw, mac_running, s_initialized, s_unwrap_state,
                   s_watchdog_task_handle, init_ret, clk_aborted, clk_hist>>
    /\ UNCHANGED <<dtrAll, unwrapVars, crmVars, auxVars>>

\* clock.c 155-158: copy the offset, give the mutex and return
BaseRead(t) ==
    /\ clk_aborted = "no"
    /\ clk_pc[t] = "base_read"
    /\ clk_local' = [clk_local EXCEPT ![t].base = s_unwrap_state.offset]
    /\ s_lock' = "free"
    /\ clk_pc' = [clk_pc EXCEPT ![t] = clk_local[t].from]
    /\ UNCHANGED <<mac_hw, mac_running, s_initialized, s_unwrap_state,
                   s_watchdog_task_handle, init_ret, clk_aborted, clk_hist>>
    /\ UNCHANGED <<dtrAll, unwrapVars, crmVars, auxVars>>

NextClock ==
    \/ \E d \in TickSet : Tick(d)
    \/ InitEnter
    \/ \E d \in InitDelaySet : InitSecondRead(d)
    \/ \E ok \in BOOLEAN : InitCreateMutex(ok)
    \/ InitMark
    \/ \E ok \in BOOLEAN : InitCreateTask(ok)
    \/ \E t \in ClockTasks : GetUsEnter(t)
    \/ \E t \in ClockTasks : GetBaseEnter(t)
    \/ \E t \in ClockTasks : Take(t)
    \/ \E t \in ClockTasks : ReadRaw(t)
    \/ \E t \in ClockTasks : Unwrap(t)
    \/ \E t \in ClockTasks : Give(t)
    \/ \E t \in ClockTasks : BaseRead(t)

SpecClock == InitClock /\ [][NextClock]_vars

\* The pcs at which a task is inside clock_get_us or clock_get_base_us
InCallPcs == {"take", "read", "unwrap", "give", "base_take", "base_read"}

\* The pcs at which a task holds the mutex
LockedPcs == {"read", "unwrap", "give", "base_read"}

-----------------------------------------------------------------------------
\* C15: if every interval between successive readings of the raw counter by
\* clock_get_us (the first one counted from the reading of clock_init) is
\* shorter than the wrap period, no wrap is missed: every result equals the
\* microseconds the hardware has counted (from the wrap boundary that
\* precedes clock_init), and successive results never decrease.
C15_NoWrapMissed ==
    (clk_hist.reads >= 1 /\ clk_hist.gap_ok) =>
        /\ clk_hist.ret + clk_hist.epoch = clk_hist.hw_last
        /\ (clk_hist.reads >= 2) => (clk_hist.ret >= clk_hist.prev_ret)

\* Two results in time, the second one after the raw counter wrapped
C15_Witness ==
    /\ clk_hist.reads >= 2
    /\ clk_hist.gap_ok
    /\ s_unwrap_state.wrap_count = 1
    /\ s_unwrap_state.last_val < MAC_CLOCK_WRAP_US - 1
    /\ clk_hist.ret = clk_hist.prev_ret + 1
    /\ clk_hist.ret >= MAC_CLOCK_WRAP_US

\* C16: calls of clock_get_us by several tasks exclude each other between
\* taking and giving the mutex, so the offset and wrap_count grow only by
\* wraps the hardware counter really made, and the results never decrease
\* in the order the mutex was acquired.
C16_NoSpuriousWrap ==
    /\ \A t, u \in ClockTasks :
          (clk_pc[t] \in LockedPcs /\ clk_pc[u] \in LockedPcs) => t = u
    /\ \A t \in ClockTasks : clk_pc[t] \in LockedPcs => s_lock = t
    /\ s_unwrap_state.offset
          = s_unwrap_state.wrap_count * MAC_CLOCK_WRAP_US
    /\ clk_hist.epoch + s_unwrap_state.offset
          <= clk_hist.hw_last - MacClockTime(clk_hist.hw_last)
    /\ (clk_hist.reads >= 2) => (clk_hist.ret >= clk_hist.prev_ret)

\* One task unwraps its reading under the mutex while the other waits for
\* it, after a wrap has been counted
C16_Witness ==
    /\ clk_pc["clock_wdog"] = "unwrap"
    /\ clk_pc["main"] = "take"
    /\ s_lock = "clock_wdog"
    /\ s_unwrap_state.wrap_count >= 1
    /\ clk_hist.reads >= 2

\* A task enters clock_get_us or clock_get_base_us in this step
EntersCall(t) == clk_pc[t] \notin InCallPcs /\ clk_pc'[t] \in InCallPcs

\* C17: no call of clock_get_us or clock_get_base_us gets past its entry
\* while the clock is not initialised; the call aborts the process instead,
\* without touching the unwrap state, the mutex or any result.
C17_UninitializedCallAborts ==
    [][ /\ (\E t \in ClockTasks : EntersCall(t)) => s_initialized
        /\ (clk_aborted' # clk_aborted) =>
              /\ ~s_initialized
              /\ clk_aborted' = "uninitialized"
              /\ UNCHANGED <<s_unwrap_state, s_lock, clk_pc, clk_local,
                             clk_hist, s_initialized>>
        /\ (clk_aborted # "no") => UNCHANGED clockVars ]_vars

\* A call after a clock_init that failed at the creation of the task
C17_Witness ==
    /\ clk_aborted = "uninitialized"
    /\ clk_hist.fail_cause = "task"
    /\ init_ret = "ESP_FAIL"

\* C18: clock_init fails when its two raw readings are identical, and every
\* failed clock_init leaves the clock uninitialised with no keep-alive task.
C18_FailedInitLeavesUninitialized ==
    /\ (/\ clk_pc["main"] \notin {"boot", "init_delay"}
        /\ clk_local["main"].mac_clock2_us
              = clk_local["main"].mac_clock1_us)
          => (init_ret = "ESP_FAIL" /\ clk_hist.fail_cause = "not_advancing")
    /\ (init_ret = "ESP_FAIL") =>
          /\ clk_hist.fail_cause \in {"not_advancing", "mutex", "task"}
          /\ ~s_initialized
          /\ s_watchdog_task_handle = "NULL"
          /\ \A t \in ClockTasks : clk_pc[t] \notin InCallPcs

\* clock_init failed after it had marked the clock initialised
C18_Witness ==
    /\ init_ret = "ESP_FAIL"
    /\ clk_hist.fail_cause = "task"
    /\ ~s_initialized
    /\ s_lock = "NULL"
    /\ s_unwrap_state.last_val # 0

\* ---------------------------------------------------------------------------
\* CRM: the sample ring and the regression (crm.c)
\* ---------------------------------------------------------------------------

\* ftm.h 14: frames per FTM session, at a small value
FTM_FRAMES_PER_SESSION == 6

\* Reports handled in one run
MaxReports == 4

\* crm.c 14-15
MAX_REGRESSION_SAMPLES == 2 * FTM_FRAMES_PER_SESSION

MIN_REGRESSION_SAMPLES == FTM_FRAMES_PER_SESSION \div 2

\* The shapes of the timestamps of a report
ReportPatterns == {"line", "same_remote", "same_local", "identical"}

\* The reports: an empty one, one of fewer than MIN_REGRESSION_SAMPLES entries,
\* full sessions of every shape
Reports ==
    {[count |-> 0, pattern |-> "line"], [count |-> 2, pattern |-> "line"]}
      \cup {[count |-> FTM_FRAMES_PER_SESSION, pattern |-> p] : p \in ReportPatterns}

\* The k-th timestamps (t1, t2, t3, t4) of a pattern: t1 and t4 in remote time,
\* t2 and t3 in local time
FtmEntry(pattern, k) ==
    LET t1 == IF pattern \in {"line", "same_local"} THEN 4 * k ELSE 5
        t2 == IF pattern \in {"line", "same_remote"} THEN 5 * k + 3 ELSE 3
        rtt == IF pattern \in {"line", "same_local"} THEN 5 - 5 * (k % 3) ELSE 5
    IN  [t1 |-> t1, t2 |-> t2, t3 |-> t2 + 2, t4 |-> t1 + 2 + rtt]

\* crm.c 53-65, with a head that never advances
add_regression_sample_StuckHead(ring, local_ps, remote_ps) ==
    IF ring.count < MAX_REGRESSION_SAMPLES
    THEN [ring EXCEPT !.local_ps[ring.count] = local_ps,
                      !.remote_ps[ring.count] = remote_ps,
                      !.count = ring.count + 1]
    ELSE [ring EXCEPT !.local_ps[ring.head] = local_ps,
                      !.remote_ps[ring.head] = remote_ps]

\* crm.c 53-65
add_regression_sample(ring, local_ps, remote_ps) ==
    IF ring.count < MAX_REGRESSION_SAMPLES
    THEN [ring EXCEPT !.local_ps[ring.count] = local_ps,
                      !.remote_ps[ring.count] = remote_ps,
                      !.count = ring.count + 1]
    ELSE [ring EXCEPT !.local_ps[ring.head] = local_ps,
                      !.remote_ps[ring.head] = remote_ps,
                      !.head = (ring.head + 1) % MAX_REGRESSION_SAMPLES]

\* crm.c 180-184, with rtt_ps / 2 rounded down
SampleOf_FloorHalf(e) ==
    LET rtt_ps == (e.t4 - e.t1) - (e.t3 - e.t2)
    IN  [local_ps |-> e.t2, remote_ps |-> e.t1 + (rtt_ps \div 2)]

\* crm.c 180-184: the sample of one entry, rtt_ps / 2 truncating
SampleOf(e) ==
    LET rtt_ps == (e.t4 - e.t1) - (e.t3 - e.t2)
    IN  [local_ps |-> e.t2, remote_ps |-> e.t1 + TruncDiv(rtt_ps, 2)]

\* crm.c 178-188: the loop over the entries i .. Len(entries)
RECURSIVE AppendEntries(_, _, _)
AppendEntries(ring, entries, i) ==
    IF i > Len(entries) THEN ring
    ELSE LET sm == SampleOf(entries[i])
         IN  AppendEntries(add_regression_sample(ring, sm.local_ps, sm.remote_ps),
                           entries, i + 1)

\* The sum of f[0] .. f[n - 1]
RECURSIVE SumTo(_, _)
SumTo(f, n) == IF n = 0 THEN 0 ELSE f[n - 1] + SumTo(f, n - 1)

\* crm.c 97-103: n * n * num, in exact arithmetic
RegNum(ring) ==
    LET n == ring.count
        sx == SumTo(ring.remote_ps, n)
        sy == SumTo(ring.local_ps, n)
    IN  SumTo([i \in 0 .. n - 1 |->
                 (n * ring.remote_ps[i] - sx) * (n * ring.local_ps[i] - sy)], n)

\* crm.c 97-103: n * n * den, in exact arithmetic
RegDen(ring) ==
    LET n == ring.count
        sx == SumTo(ring.remote_ps, n)
    IN  SumTo([i \in 0 .. n - 1 |->
                 (n * ring.remote_ps[i] - sx) * (n * ring.remote_ps[i] - sx)], n)

\* crm.c 74, 105, testing only the denominator
RegressionSkipped_DenOnly(count, num, den) ==
    (count < MIN_REGRESSION_SAMPLES) \/ (den = 0)

\* crm.c 74, 105: the two early returns of perform_regression
RegressionSkipped(count, num, den) ==
    (count < MIN_REGRESSION_SAMPLES) \/ (den = 0) \/ (num = 0)

\* crm.c 72-142: the return value and the model left behind.  valid is the
\* outcome of the single-precision comparison r_squared > 0.999f at line 134.
perform_regression(ring, model, valid) ==
    LET n == ring.count
        num == IF n = 0 THEN 0 ELSE RegNum(ring)
        den == IF n = 0 THEN 0 ELSE RegDen(ring)
    IN  IF RegressionSkipped(n, num, den)
        THEN [ok |-> FALSE, model |-> model]
        ELSE [ok |-> TRUE,
              model |->
                [crm_valid |-> valid,
                 crm_slope_lr_m1 |-> [num |-> num - den, den |-> den],
                 crm_slope_rl_m1 |-> [num |-> den - num, den |-> num],
                 crm_local_ref_ps |-> TruncDiv(SumTo(ring.local_ps, n), n),
                 crm_remote_ref_ps |-> TruncDiv(SumTo(ring.remote_ps, n), n)]]

\* crm.c 144-157 followed by dtc.c 23: the CRM after crm_init, with or without
\* a registered callback
InitCrm ==
    /\ DtrQuiet
    /\ UnwrapIdle
    /\ ClockIdle
    /\ AuxIdleExcept("none")
    /\ s_regression_samples = EmptyRing(MAX_REGRESSION_SAMPLES)
    /\ crm_model = NoCrmModel
    /\ s_callback \in {"NULL", "dtc_crm_updated"}
    /\ crm_hist = NoCrmHist

\* crm.c 165-218: crm_process_ftm_report on a report of count entries
ProcessFtmReport(count, pattern, valid) ==
    /\ crm_hist.reports < MaxReports
    /\ LET k0 == Len(crm_hist.appended)
           entries == [i \in 1 .. count |-> FtmEntry(pattern, k0 + i)]
       IN  \E ring \in {AppendEntries(s_regression_samples, entries, 1)} :
           \E fit \in {IF count = 0 THEN [ok |-> FALSE, model |-> crm_model]
                        ELSE perform_regression(ring, crm_model, valid)} :
           /\ valid => fit.ok
           /\ s_regression_samples' = ring
           /\ crm_model' = fit.model
           /\ crm_hist' =
                [appended |-> crm_hist.appended
                                \o [i \in 1 .. count |-> SampleOf(entries[i])],
                 reports |-> crm_hist.reports + 1,
                 cb_calls |-> IF fit.ok /\ s_callback # "NULL" THEN 1 ELSE 0,
                 fit |-> IF count = 0 THEN "none"
                         ELSE IF fit.ok THEN "ok" ELSE "skipped",
                 pre |-> crm_model,
                 entries |-> entries]
    /\ UNCHANGED <<dtrAll, unwrapVars, clockVars, s_callback, auxVars>>

NextCrm ==
    \E r \in Reports, valid \in BOOLEAN :
        ProcessFtmReport(r.count, r.pattern, valid)

SpecCrm == InitCrm /\ [][NextCrm]_vars

\* The slots of the ring from the oldest sample to the newest
RingInOrder ==
    [i \in 1 .. s_regression_samples.count |->
        LET slot == (s_regression_samples.head + i - 1) % MAX_REGRESSION_SAMPLES
        IN  [local_ps |-> s_regression_samples.local_ps[slot],
             remote_ps |-> s_regression_samples.remote_ps[slot]]]

\* C19: after n appended samples the ring's count is min(n, MAX_SAMPLES) and
\* the ring holds exactly the most recent min(n, MAX_SAMPLES) samples, oldest
\* first from head.
C19_RingKeepsMostRecent ==
    LET n == Len(crm_hist.appended)
        kept == IF n < MAX_REGRESSION_SAMPLES THEN n ELSE MAX_REGRESSION_SAMPLES
    IN  /\ s_regression_samples.count = kept
        /\ RingInOrder = SubSeq(crm_hist.appended, n - kept + 1, n)

\* 2 x MAX_SAMPLES samples were appended: every slot was overwritten once
C19_Witness ==
    /\ Len(crm_hist.appended) = 2 * MAX_REGRESSION_SAMPLES
    /\ s_regression_samples.count = MAX_REGRESSION_SAMPLES
    /\ s_regression_samples.head = 0
    /\ RingInOrder[1] = crm_hist.appended[MAX_REGRESSION_SAMPLES + 1]

\* The ring has too few samples, or all its remote values are equal, or the
\* covariance of its samples is zero
FitImpossible ==
    LET n == s_regression_samples.count
    IN  \/ n < MIN_REGRESSION_SAMPLES
        \/ \A i, j \in 0 .. n - 1 :
              s_regression_samples.remote_ps[i] = s_regression_samples.remote_ps[j]
        \/ RegNum(s_regression_samples) = 0

\* C20: when the ring left by a report has fewer than MIN_SAMPLES samples or
\* gives a zero numerator or denominator, crm_valid, the slopes and the
\* reference points are those of before the report and the callback was not
\* invoked.
C20_SkippedFitKeepsModel ==
    (crm_hist.reports > 0 /\ FitImpossible) =>
        /\ crm_model = crm_hist.pre
        /\ crm_hist.cb_calls = 0
        /\ crm_hist.fit # "ok"

\* A report of identical points after a fit that succeeded, with a callback
\* registered
C20_Witness ==
    /\ s_callback = "dtc_crm_updated"
    /\ crm_hist.fit = "skipped"
    /\ crm_hist.pre # NoCrmModel
    /\ crm_model = crm_hist.pre
    /\ s_regression_samples.count = MAX_REGRESSION_SAMPLES
    /\ \A i, j \in 0 .. MAX_REGRESSION_SAMPLES - 1 :
          /\ s_regression_samples.remote_ps[i] = s_regression_samples.remote_ps[j]
          /\ s_regression_samples.local_ps[i] = s_regression_samples.local_ps[j]

\* C21: a report appends to the ring, for each of its entries in order, the
\* pair (t2, t1 + rtt/2) with rtt = (t4 - t1) - (t3 - t2) and the quotient
\* truncated toward zero; the samples that stay keep their order; a report
\* with count == 0 leaves the ring, the model and the callback as they were
\* and invokes nothing.
C21_ReportAppendsPairs ==
    [][ (crm_hist'.reports # crm_hist.reports) =>
          LET es == crm_hist'.entries
              n == Len(es)
              old == RingInOrder
              new == RingInOrder'
              stay == Len(new) - n
          IN /\ Len(new) = IF Len(old) + n < MAX_REGRESSION_SAMPLES
                           THEN Len(old) + n ELSE MAX_REGRESSION_SAMPLES
             /\ \A i \in 1 .. n :
                   LET rtt == (es[i].t4 - es[i].t1) - (es[i].t3 - es[i].t2)
                       half == new[stay + i].remote_ps - es[i].t1
                   IN /\ new[stay + i].local_ps = es[i].t2
                      /\ \/ 2 * half = rtt
                         \/ rtt > 0 /\ 2 * half = rtt - 1
                         \/ rtt < 0 /\ 2 * half = rtt + 1
             /\ \A j \in 1 .. stay : new[j] = old[Len(old) - stay + j]
             /\ (n = 0) =>
                   /\ UNCHANGED <<s_regression_samples, crm_model, s_callback>>
                   /\ crm_hist'.cb_calls = 0
      ]_vars

\* A full report with an entry of negative odd rtt was appended to a ring
\* that was already full
C21_Witness ==
    /\ Len(crm_hist.entries) = FTM_FRAMES_PER_SESSION
    /\ Len(crm_hist.appended) > MAX_REGRESSION_SAMPLES + FTM_FRAMES_PER_SESSION
    /\ \E i \in 1 .. Len(crm_hist.entries) :
          LET e == crm_hist.entries[i]
          IN (e.t4 - e.t1) - (e.t3 - e.t2) = -5

-----------------------------------------------------------------------------
\* C22: the request the DTC publishes for a valid model has a target
\* aligned_local_ticks strictly greater than the timer_base_ticks value the
\* DTC sampled for it.
C22_TargetAfterSampledBase ==
    [][ (role = "slave" /\ task_pc = "publish" /\ task_pc' = "wait2") =>
          /\ crm.valid
          /\ s_align_request'.pending
          /\ s_align_request'.aligned_local_ticks > tb_sample
      ]_vars

\* The DTC published the request of its second update, for a fit with a
\* slope other than 1
C22_Witness ==
    /\ role = "slave"
    /\ task_pc = "wait2"
    /\ s_align_request.pending
    /\ crm.valid
    /\ crm.ppm # 0
    /\ ~s_first_update
    /\ s_align_request.aligned_local_ticks > tb_sample

-----------------------------------------------------------------------------
(* The projections of the DTC on their own (dtc.c 41-62)                   *)

ProjSpan == 20   \* local tick values tried on each side of the centroid

\* The inputs of a round trip: valid fits (the slopes of CrmModels and two
\* wider ones, the centroids of CrmModels in ticks) and local tick values up
\* to 0.2 s before and after the centroid.  The distances are taken around
\* the multiples of 20001 = (SlopeDen + 50) / 50, where the two truncations
\* of a 50 ppm fit do not cancel, and of a step that has no such relation
\* to the slopes.
ProjInputs ==
    { [stage |-> "local", local_ticks |-> c.l + (k * step) + j,
       crm_ref_local_ticks |-> c.l, crm_ref_remote_ticks |-> c.r, ppm |-> p,
       remote_ticks |-> 0, back_ticks |-> 0] :
        c \in { [l |-> TruncDiv(m.local_ref_ps, DTR_PS_PER_TICK),
                 r |-> TruncDiv(m.remote_ref_ps, DTR_PS_PER_TICK)] :
                   m \in {n \in CrmModels : n.valid} },
        p \in {n.ppm : n \in {n \in CrmModels : n.valid}} \cup {-200, 200},
        step \in {20001, 399989},
        k \in (-ProjSpan) .. ProjSpan,
        j \in -1 .. 1 }

InitProj ==
    /\ DtrQuiet
    /\ UnwrapIdle
    /\ ClockIdle
    /\ CrmIdle
    /\ AuxIdleExcept("proj")
    /\ proj \in ProjInputs

\* dtc_local_to_remote on the local tick value
ProjectToRemote ==
    /\ proj.stage = "local"
    /\ proj' = [proj EXCEPT
                  !.stage = "remote",
                  !.remote_ticks =
                      dtc_local_to_remote(proj.local_ticks,
                                          proj.crm_ref_local_ticks,
                                          proj.crm_ref_remote_ticks, proj.ppm)]
    /\ UNCHANGED <<dtrAll, unwrapVars, clockVars, crmVars, meas, sync>>

\* dtc_remote_to_local on the result
ProjectToLocal ==
    /\ proj.stage = "remote"
    /\ proj' = [proj EXCEPT
                  !.stage = "back",
                  !.back_ticks =
                      dtc_remote_to_local(proj.remote_ticks,
                                          proj.crm_ref_local_ticks,
                                          proj.crm_ref_remote_ticks, proj.ppm)]
    /\ UNCHANGED <<dtrAll, unwrapVars, clockVars, crmVars, meas, sync>>

NextProj == ProjectToRemote \/ ProjectToLocal

SpecProj == InitProj /\ [][NextProj]_vars

\* C23: for a valid model, whose two slopes are inverse to each other and
\* share the reference point, dtc_remote_to_local(dtc_local_to_remote(x))
\* differs from x by at most 1 tick.
C23_RoundTripWithinOneTick ==
    (proj.stage = "back") =>
        /\ proj.back_ticks - proj.local_ticks <= 1
        /\ proj.local_ticks - proj.back_ticks <= 1

\* A round trip that the truncations moved by one tick
C23_Witness ==
    /\ proj.stage = "back"
    /\ proj.ppm # 0
    /\ proj.remote_ticks - proj.crm_ref_remote_ticks
          # proj.local_ticks - proj.crm_ref_local_ticks
    /\ proj.back_ticks # proj.local_ticks

-----------------------------------------------------------------------------
\* C24: the DTC runs its protocol only for a valid model.  A callback for
\* an invalid fit returns at once: it registers no listener, waits for no
\* TEZ, publishes nothing, and leaves AlignRequest, AlignFeedback and the
\* DTR state as they were; a callback for a valid fit enters the protocol,
\* and the slave is at a step of the protocol only with a valid model.
C24_InvalidFitChangesNothing ==
    [][ /\ (crm_updates' # crm_updates /\ ~crm'.valid) =>
              /\ task_pc' = "idle"
              /\ UNCHANGED <<dtrVars, mailVars, s_tez_listener_task,
                             notify_pending, hwVars, isr_pc, aborted>>
        /\ (crm_updates' # crm_updates /\ crm'.valid) => task_pc' = "reg"
        /\ (role = "slave" /\ task_pc' \in {"reg", "clear", "wait1", "sample",
                                            "publish", "wait2", "grab"}) =>
              crm'.valid
      ]_vars

\* An invalid fit arrived after a valid one had aligned the slave
C24_Witness ==
    /\ role = "slave"
    /\ crm_updates = 2
    /\ ~crm.valid
    /\ task_pc = "idle"
    /\ s_state = "Aligned"
    /\ fetch_count = 1

-----------------------------------------------------------------------------
\* C30: at the end of every TEZ ISR, timer_base_ticks is the start offset
\* dtr_start_timer has added so far plus the lengths of the periods the
\* counter has completed since the timer was started, and
\* active_period_ticks is the period the previous ISR wrote to the shadow
\* register, which is the period the counter is now running.
C30_BaseIsElapsedTime ==
    [][ (isr_pc = "tail" /\ isr_pc' = "idle") =>
            /\ timer_base_ticks' = hw_hist'.offset + hw_hist'.elapsed
            /\ active_period_ticks' = hw_shadow_period
            /\ active_period_ticks' = hw_hist'.running
      ]_vars

\* An ISR ended after the offset was added and a period of other than the
\* nominal length was completed
C30_Witness ==
    /\ isr_pc = "idle"
    /\ tez_count >= 3
    /\ hw_hist.offset # 0
    /\ hw_hist.elapsed % DTR_TIMER_PERIOD_TICKS # 0
    /\ active_period_ticks # DTR_TIMER_PERIOD_TICKS
    /\ timer_base_ticks = hw_hist.offset + hw_hist.elapsed

-----------------------------------------------------------------------------
\* The master has fetched the feedback of its one alignment run, and the
\* ISR that applied the request has passed its range check
MasterRunDone ==
    /\ role = "master"
    /\ aborted = "no"
    /\ isr_pc = "idle"
    /\ task_pc \in {"unreg", "done"}
    /\ fetch_count = 1

-----------------------------------------------------------------------------
\* C28: dtr_wait_for_tez returns only on a notification, which only a TEZ
\* ISR running with the caller registered as listener delivers; without a
\* notification the wait ends in an abort and the caller takes no further
\* step, so the steps after a wait run only after a TEZ.
C28_WaitReturnsOnlyOnTez ==
    [][ /\ (task_pc \in {"wait1", "wait2"} /\ task_pc' # task_pc) =>
              /\ notify_pending
              /\ ~notify_pending'
              /\ tez_count >= 1
              /\ aborted' = "no"
        /\ (~notify_pending /\ notify_pending') =>
              /\ isr_pc = "tail"
              /\ isr_pc' = "idle"
              /\ s_tez_listener_task = "task"
        /\ (aborted # "tez_timeout" /\ aborted' = "tez_timeout") =>
              /\ task_pc \in {"wait1", "wait2"}
              /\ ~notify_pending
              /\ UNCHANGED task_pc
        /\ (aborted # "no") => UNCHANGED task_pc
      ]_vars

\* A wait that ended in the timeout abort, after an earlier wait of the
\* same run had returned on a TEZ
C28_Witness ==
    /\ aborted = "tez_timeout"
    /\ task_pc = "wait2"
    /\ ~notify_pending
    /\ ~timer_running
    /\ tez_count >= 1

-----------------------------------------------------------------------------
(* The sync receiver of the slave, ftm_sync_recv_cb (ftm.c 198-224)        *)

FTM_SYNC_MAGIC == 1179931440   \* 0x46545330

\* sizeof(ftm_sync_packet_t): packed uint32_t, uint32_t, uint64_t
SyncPacketSize == 4 + 4 + 8

MaxSyncPackets == 3   \* datagrams received

\* The datagrams: short, exact and long ones, with the magic and two other
\* values in its place, run_id 0 (the initial value of the static) and two
\* others
Datagrams ==
    [len : {SyncPacketSize - 4, SyncPacketSize, SyncPacketSize + 4},
     magic : {FTM_SYNC_MAGIC, FTM_SYNC_MAGIC + 1, 0},
     run_id : {0, 7, 9},
     mac_clock_us : {100, 200}]

\* ftm.c 200-208: the size and magic tests
SyncAccepts_MagicOnly(d) == d.magic = FTM_SYNC_MAGIC
SyncAccepts(d) == d.len = SyncPacketSize /\ d.magic = FTM_SYNC_MAGIC

InitSync ==
    /\ DtrQuiet
    /\ UnwrapIdle
    /\ ClockIdle
    /\ CrmIdle
    /\ AuxIdleExcept("sync")
    /\ sync = NoSync

\* ftm_sync_recv_cb(info, data, len)
SyncRecv(d) ==
    /\ sync.packets < MaxSyncPackets
    /\ sync' =
          IF ~SyncAccepts(d)
          THEN [sync EXCEPT !.packets = @ + 1, !.reboot = FALSE, !.last = d]
          ELSE [s_remote_run_id |-> d.run_id,
                s_sync_valid |-> TRUE,
                s_remote_mac_clock_us |-> d.mac_clock_us,
                packets |-> sync.packets + 1,
                accepted |-> sync.accepted + 1,
                reboot |-> sync.s_sync_valid
                             /\ d.run_id # sync.s_remote_run_id,
                last |-> d]
    /\ UNCHANGED <<dtrAll, unwrapVars, clockVars, crmVars, proj, meas>>

NextSync == \E d \in Datagrams : SyncRecv(d)

SpecSync == InitSync /\ [][NextSync]_vars

\* C29: a datagram of another length than the packet's 16 bytes or with
\* another magic leaves the sync state as it was; a master reboot is
\* signalled exactly for an accepted packet whose run_id differs from the
\* stored one when an accepted packet came before; receiving never changes
\* CRM or DTR state.
C29_SyncIgnoresForeignDatagrams ==
    [][ (sync'.packets # sync.packets) =>
          LET d == sync'.last
              ok == d.len = 16 /\ d.magic = FTM_SYNC_MAGIC
          IN /\ ~ok =>
                   /\ sync'.s_remote_run_id = sync.s_remote_run_id
                   /\ sync'.s_sync_valid = sync.s_sync_valid
                   /\ sync'.s_remote_mac_clock_us = sync.s_remote_mac_clock_us
             /\ ok =>
                   /\ sync'.s_remote_run_id = d.run_id
                   /\ sync'.s_sync_valid
                   /\ sync'.s_remote_mac_clock_us = d.mac_clock_us
             /\ sync'.reboot <=>
                   (ok /\ sync.accepted > 0
                       /\ d.run_id # sync.s_remote_run_id)
             /\ sync.s_sync_valid <=> (sync.accepted > 0)
             /\ UNCHANGED <<dtrAll, crmVars>>
      ]_vars

\* A reboot signalled by the second accepted packet, after a datagram that
\* was ignored
C29_Witness ==
    /\ sync.reboot
    /\ sync.accepted = 2
    /\ sync.packets = 3
    /\ sync.last.run_id = 0

-----------------------------------------------------------------------------
(* The measurement of the MAC/timer start offset (dtr.c 190-322)           *)
(*                                                                         *)
(* Time is counted in timer ticks since the start of the timer.  The timer *)
(* runs its nominal period (the measurement precedes every alignment), the *)
(* MAC clock shows the microseconds of the time plus the true offset, and  *)
(* the TEZ ISR keeps timer_base_ticks at the last multiple of the period   *)
(* except while the measuring task holds the spinlock and while a TEZ      *)
(* that the hardware has raised waits for its ISR to run.                  *)

DTR_MAC_TIMER_ALIGNMENT_MAX_SAMPLES == 3   \* iterations of the measurement

\* The raw MAC counter wraps at 2^32 us; the model wraps it at 2^12 us
MeasMacWrap == 2 ^ 12

\* INT64_MAX, the initial upper bound, kept inside the model's integers
OffsetTicksMaxInit == (2 ^ 30) - 1

\* True offsets: two far from a wrap of the raw MAC counter, one that
\* puts a wrap 60 ticks after the start of the timer
MeasOffsets == {100003, 100020, (MeasMacWrap * TIMER_TICKS_PER_US) - 60}

\* Ticks from the end of an iteration to the first samples of the next
PreGaps == {2, 19, 19975}

\* Ticks the task is preempted between its first samples and the spinlock
LockGaps == {0, 5, 19988}

\* Ticks between a TEZ in hardware and the update of timer_base_ticks by
\* its ISR: none, or one microsecond
IsrLags == {0, TIMER_TICKS_PER_US}

\* timer_base_ticks at time e when the ISR is lag ticks behind the hardware
TrackedBase(e, lag) ==
    DTR_TIMER_PERIOD_TICKS
        * ((IF e > lag THEN e - lag ELSE 0) \div DTR_TIMER_PERIOD_TICKS)

\* dtr_read_timer_count at time u
dtr_read_timer_count(u) == u % DTR_TIMER_PERIOD_TICKS

\* esp_wifi_internal_get_mac_clock_time at time u, for the true offset d
mac_clock_time(u, d) == ((u + d) \div TIMER_TICKS_PER_US) % MeasMacWrap

\* clock_get_base_us at time u: the wraps of the raw counter so far
clock_get_base_us(u, d) ==
    MeasMacWrap * (((u + d) \div TIMER_TICKS_PER_US) \div MeasMacWrap)

\* dtr.c 211-219: the tight loop.  An iteration started at time s reads the
\* timer at s, the MAC clock at s + 1 and s + 3 and the timer at s + 4; the
\* next one starts at s + 6.  The result is the start of the iteration
\* that saw the MAC clock change.
RECURSIVE CatchLoop(_, _)
CatchLoop(s, d) ==
    IF mac_clock_time(s + 3, d) # mac_clock_time(s + 1, d)
    THEN s
    ELSE CatchLoop(s + 6, d)

\* dtr.c 190-224: the samples of one call that starts at time t0 and
\* takes the spinlock at time e, the ISR being lag ticks behind; read_at is
\* the time of the read of timer_before, lock_at the time of the snapshot
CatchSamples(t0, e, d, lag) ==
    LET s == CatchLoop(e + 1, d)
    IN [timer_pre |-> dtr_read_timer_count(t0),
        mac_clock_us_pre |-> mac_clock_time(t0, d),
        mac_clock_base_us |-> clock_get_base_us(t0, d),
        timer_base_ticks_pre |-> TrackedBase(e, lag),
        lock_at |-> e,
        read_at |-> s,
        timer_before |-> dtr_read_timer_count(s),
        mac_clock_us_1 |-> mac_clock_time(s + 1, d),
        mac_clock_us_2 |-> mac_clock_time(s + 3, d),
        timer_after |-> dtr_read_timer_count(s + 4),
        timer_post |-> dtr_read_timer_count(s + 5),
        mac_clock_us_post |-> mac_clock_time(s + 6, d),
        end |-> s + 7]

\* dtr.c 226-236: the two monotonicity checks
CatchAccepts_TimerOnly(r) ==
    ~(r.timer_before < r.timer_pre \/ r.timer_after < r.timer_before
         \/ r.timer_post < r.timer_after)
CatchAccepts(r) ==
    /\ ~(r.timer_before < r.timer_pre \/ r.timer_after < r.timer_before
           \/ r.timer_post < r.timer_after)
    /\ ~(r.mac_clock_us_1 < r.mac_clock_us_pre
           \/ r.mac_clock_us_2 < r.mac_clock_us_1
           \/ r.mac_clock_us_post < r.mac_clock_us_2)

NoSamples == CatchSamples(0, 0, 0, 0)

InitMeasure ==
    /\ DtrQuiet
    /\ UnwrapIdle
    /\ ClockIdle
    /\ CrmIdle
    /\ AuxIdleExcept("meas")
    /\ \E d \in MeasOffsets :
          meas = [pc |-> "loop", now |-> 0, true_offset |-> d, samples |-> 0,
                  offset_ticks_min |-> 0,
                  offset_ticks_max |-> OffsetTicksMaxInit,
                  accepted |-> FALSE, last |-> NoSamples, offset_ticks |-> 0]

\* One iteration of the for loop of s_measure_mac_clock_timer_start_offset:
\* s_catch_mac_clock_transition and, if it succeeds,
\* s_refine_mac_clock_timer_start_offset
MeasureSample(pre_gap, lock_gap, lag) ==
    /\ meas.pc = "loop"
    /\ meas.samples < DTR_MAC_TIMER_ALIGNMENT_MAX_SAMPLES
    /\ \E r \in {CatchSamples(meas.now + pre_gap,
                              meas.now + pre_gap + lock_gap,
                              meas.true_offset, lag)} :
          LET timer_abs_before == r.timer_base_ticks_pre + r.timer_before
              timer_abs_after == r.timer_base_ticks_pre + r.timer_after
              mac_at_transition_ticks ==
                  (r.mac_clock_base_us + r.mac_clock_us_2)
                      * TIMER_TICKS_PER_US
              new_min == mac_at_transition_ticks - timer_abs_after
              new_max == mac_at_transition_ticks - timer_abs_before
              seen == [meas EXCEPT !.now = r.end, !.samples = @ + 1,
                                   !.last = r]
          IN meas' =
               IF ~CatchAccepts(r)
               THEN [seen EXCEPT !.accepted = FALSE]
               ELSE IF ~(timer_abs_after < mac_at_transition_ticks)
                         \/ ~(new_min <= new_max)
               THEN [seen EXCEPT !.pc = "assert"]
               ELSE [seen EXCEPT
                       !.accepted = TRUE,
                       !.offset_ticks_min =
                           IF new_min > @ THEN new_min ELSE @,
                       !.offset_ticks_max =
                           IF new_max < @ THEN new_max ELSE @]
    /\ UNCHANGED <<dtrAll, unwrapVars, clockVars, crmVars, proj, sync>>

\* dtr.c 321-322: the loop has ended, the midpoint is the result
MeasureReturn ==
    /\ meas.pc = "loop"
    /\ meas.samples = DTR_MAC_TIMER_ALIGNMENT_MAX_SAMPLES
    /\ meas' = [meas EXCEPT
                  !.pc = "done",
                  !.offset_ticks =
                      TruncDiv(meas.offset_ticks_min + meas.offset_ticks_max,
                               2)]
    /\ UNCHANGED <<dtrAll, unwrapVars, clockVars, crmVars, proj, sync>>

NextMeasure ==
    \/ \E pre_gap \in PreGaps, lock_gap \in LockGaps, lag \in IsrLags :
          MeasureSample(pre_gap, lock_gap, lag)
    \/ MeasureReturn

SpecMeasure == InitMeasure /\ [][NextMeasure]_vars

\* C26: across the iterations min never decreases and max never
\* increases, and after every accepted iteration min <= max and the
\* interval [min, max] contains the true offset.
C26_IntervalContainsOffset ==
    [][ (meas'.samples # meas.samples) =>
          /\ meas'.offset_ticks_min >= meas.offset_ticks_min
          /\ meas'.offset_ticks_max <= meas.offset_ticks_max
          /\ meas'.accepted =>
                /\ meas'.offset_ticks_min <= meas'.offset_ticks_max
                /\ meas'.offset_ticks_min <= meas.true_offset
                /\ meas.true_offset <= meas'.offset_ticks_max
      ]_vars

\* The samples of an iteration are not monotone
SamplesNotMonotone(r) ==
    \/ r.timer_before < r.timer_pre
    \/ r.timer_after < r.timer_before
    \/ r.timer_post < r.timer_after
    \/ r.mac_clock_us_1 < r.mac_clock_us_pre
    \/ r.mac_clock_us_2 < r.mac_clock_us_1
    \/ r.mac_clock_us_post < r.mac_clock_us_2

\* C27: an iteration whose timer reads or MAC reads are not monotone
\* leaves min and max unchanged and the measurement goes on with the next
\* iteration; the measurement ends after exactly N_SAMPLES iterations,
\* accepted or discarded, and returns the midpoint (min + max) / 2.
C27_DiscardAndFinish ==
    [][ /\ (meas'.samples # meas.samples) =>
              /\ meas'.samples = meas.samples + 1
              /\ SamplesNotMonotone(meas'.last) =>
                    /\ ~meas'.accepted
                    /\ meas'.offset_ticks_min = meas.offset_ticks_min
                    /\ meas'.offset_ticks_max = meas.offset_ticks_max
                    /\ meas'.pc = "loop"
        /\ (meas.pc = "loop" /\ meas'.pc = "done") =>
              /\ meas.samples = DTR_MAC_TIMER_ALIGNMENT_MAX_SAMPLES
              /\ meas'.samples = meas.samples
              /\ 2 * meas'.offset_ticks
                    \in {meas.offset_ticks_min + meas.offset_ticks_max,
                         meas.offset_ticks_min + meas.offset_ticks_max - 1}
        /\ (meas.pc = "loop"
              /\ meas.samples = DTR_MAC_TIMER_ALIGNMENT_MAX_SAMPLES) =>
              meas'.pc = "done"
      ]_vars

\* A measurement that returned after a discarded last iteration in which
\* the raw MAC counter wrapped, with bounds from the accepted ones
C27_Witness ==
    /\ meas.pc = "done"
    /\ ~meas.accepted
    /\ meas.last.mac_clock_us_1 < meas.last.mac_clock_us_pre
    /\ meas.offset_ticks_min > 0
    /\ meas.offset_ticks_max < OffsetTicksMaxInit
    /\ 2 * meas.offset_ticks >= meas.offset_ticks_min + meas.offset_ticks_max - 1

-----------------------------------------------------------------------------
-----------------------------------------------------------------------------
\* C34: in every state a pending request implies a feedback that is not
\* ready, so the assert(!feedback.ready) of an ISR that consumes a request
\* never fails.
C34_PendingImpliesNotReady ==
    /\ s_align_request.pending => ~s_align_feedback.ready
    /\ aborted # "isr_assert"

\* A second request was published over a feedback that was still ready
\* when it was fetched
C34_Witness ==
    /\ s_align_request.pending
    /\ ~s_align_feedback.ready
    /\ fetched.ready
    /\ crm_updates = 2
    /\ task_pc = "wait2"

-----------------------------------------------------------------------------
\* C32: when the target of an applied request leaves period_ticks below
\* DTR_MIN_PERIOD_TICKS, zero and negative values included, the ISR rolls
\* forward, one dithered period and one cycle at a time, until
\* period_ticks >= DTR_MIN_PERIOD_TICKS, and does not abort.
C32_ShortPeriodRolledForward ==
    /\ (isr_pc = "tail" /\ isr_branch = "align" /\ aborted # "isr_assert") =>
          /\ period_ticks >= DTR_MIN_PERIOD_TICKS
          /\ cycle_counter = applied.cycle
                + MinRollSteps(applied.ticks - timer_base_ticks, 0,
                               applied.base)
    /\ (aborted = "period_range" /\ isr_branch = "align") =>
          applied.ticks - timer_base_ticks >= DTR_MIN_PERIOD_TICKS

-----------------------------------------------------------------------------
\* C31: after a request with target L* was applied at TEZ k without
\* roll-forward, and with no further request, the period computed at
\* TEZ k, L* - timer_base_ticks, is the one the counter runs between
\* TEZ k+1 and TEZ k+2; so at TEZ k+2 timer_base_ticks = L* plus the
\* length of the period that was running at TEZ k, and cycle_counter =
\* target cycle + 2.
C31_JumpPeriodOneCycleLate ==
    [][ (TezStep /\ applied # NoApplied /\ applied.k = 0 /\ dither_n = 1
            /\ ~s_align_request.pending) =>
          LET jump == applied.ticks - applied.tb
              active_k == timer_base_ticks - applied.tb
          IN /\ hw_hist.running = jump
             /\ active_period_ticks = jump
             /\ hw_hist'.elapsed = hw_hist.elapsed + jump
             /\ timer_base_ticks' = applied.ticks + active_k
             /\ cycle_counter' = applied.cycle + 2
      ]_vars

\* The second TEZ after an apply whose jump period differs from the
\* period that was running when the request was applied
C31_Witness ==
    /\ isr_branch = "dither"
    /\ dither_n = 2
    /\ applied # NoApplied
    /\ applied.k = 0
    /\ applied.ticks - applied.tb # DTR_TIMER_PERIOD_TICKS
    /\ timer_base_ticks = applied.ticks + DTR_TIMER_PERIOD_TICKS
    /\ cycle_counter = applied.cycle + 2

-----------------------------------------------------------------------------
\* C36 as stated: roll-forward happens only when the first alignment is
\* applied (state Running); a request applied in state Aligned is applied
\* with period_ticks >= DTR_MIN_PERIOD_TICKS and no extra increment of
\* cycle_counter.
C36_RollForwardOnlyAtFirst ==
    [][ (TezStep /\ s_align_request.pending /\ s_state = "Aligned") =>
          /\ applied'.k = 0
          /\ cycle_counter' = s_align_request.aligned_cycle_counter
          /\ period_ticks' >= DTR_MIN_PERIOD_TICKS
      ]_vars


IsrStep == TezStep \/ (isr_pc = "tail" /\ isr_pc' = "idle")

\* dtr.c 410-414: the zeroing in s_enable_and_start_timer, before the timer
\* is enabled
StartZeroStep ==
    /\ task_pc = "start"
    /\ ~timer_running
    /\ timer_base_ticks' = 0
    /\ cycle_counter' = 0
    /\ s_state' = "Running"
    /\ UNCHANGED <<active_period_ticks, shadow_period_ticks, period_ticks,
                   base_period_fp16, period_ticks_frac_acc>>

\* dtr.c 485-487: the measured offset is added to timer_base_ticks
OffsetAddStep ==
    /\ task_pc = "measure"
    /\ timer_base_ticks' = timer_base_ticks + (hw_hist'.offset - hw_hist.offset)
    /\ UNCHANGED <<s_state, cycle_counter, active_period_ticks,
                   shadow_period_ticks, period_ticks, base_period_fp16,
                   period_ticks_frac_acc>>

\* C37 as stated: after dtr_init a core field of the DTR is changed only by
\* the TEZ ISR or by the zeroing in start_timer before the timer runs.
C37_CoreWrittenByIsrOnly ==
    [][ dtrVars' # dtrVars => (IsrStep \/ StartZeroStep) ]_vars

\* C37 amended: a core field of the DTR is changed only by the TEZ ISR, by
\* the zeroing in start_timer before the timer runs, or by dtr_start_timer
\* adding the measured offset to timer_base_ticks while the timer runs; every
\* other task-side step leaves all core fields unchanged.
C37_CoreWrittenByIsrOrStart ==
    [][ dtrVars' # dtrVars =>
          (IsrStep \/ StartZeroStep \/ OffsetAddStep) ]_vars

C37_Witness ==
    /\ hw_hist.offset # 0
    /\ tez_count > 0
    /\ timer_running
    /\ timer_base_ticks = hw_hist.offset + hw_hist.elapsed
    /\ task_pc \in {"reg", "idle"}
    /\ isr_pc = "idle"


\* The hardware period boundaries up to time u, in ticks
BoundariesUpTo(u) == DTR_TIMER_PERIOD_TICKS * (u \div DTR_TIMER_PERIOD_TICKS)

\* C38: the timer_base_ticks snapshot of every accepted iteration accounts
\* for every hardware period boundary before its timer reads, and an
\* iteration whose snapshot was taken while a TEZ raised by the hardware
\* had not yet been counted by the ISR is rejected.
C38_AcceptedBaseIsCurrent ==
    [][ (meas'.samples # meas.samples /\ meas'.accepted) =>
          LET r == meas'.last
          IN /\ r.timer_base_ticks_pre = BoundariesUpTo(r.read_at)
             /\ r.timer_base_ticks_pre = BoundariesUpTo(r.read_at + 4)
             /\ r.timer_base_ticks_pre = BoundariesUpTo(r.lock_at)
      ]_vars


\* C39: whenever the TEZ ISR notifies the registered listener, the
\* listener is a task that exists; the FTM task is not left registered once
\* it is deleted, and the master protocol has unregistered when it returns.
C39_ListenerExists ==
    /\ [][ (isr_pc = "tail" /\ isr_pc' = "idle"
              /\ s_tez_listener_task # "NULL") => task_pc # "deleted" ]_vars
    /\ [](task_pc = "deleted" => s_tez_listener_task = "NULL")
    /\ [](task_pc = "done" => s_tez_listener_task = "NULL")

\* C40: when clock_get_base_us returns, the base plus the raw reading of
\* that instant is what clock_get_us would return at that instant, and,
\* the readings of clock_get_us having been in time, it is the microseconds
\* the hardware has counted.
C40_BasePlusRawIsClock ==
    [][ \A t \in ClockTasks :
          (clk_pc[t] = "base_read" /\ clk_pc'[t] # "base_read") =>
             LET raw == MacClockTime(mac_hw')
                 abs == clk_local'[t].base + raw
             IN /\ abs = clock_unwrap(raw, s_unwrap_state').ret
                /\ (clk_hist'.gap_ok
                      /\ mac_hw' - clk_hist'.hw_last < MAC_CLOCK_WRAP_US) =>
                        abs + clk_hist'.epoch = mac_hw'
      ]_vars

====
